---- MODULE Spec2Model ----
(***************************************************************************)
(* Model of msproject_validator: the validation checks of validators.py,   *)
(* the repair passes of repairs.py and the orchestration of core.py.       *)
(*                                                                         *)
(* The document is the ElementTree of the input.  An element is a record   *)
(* [tag, text, kids]; text is the sequence of the characters of the        *)
(* element's text (<<>> for None or ''), kids the sequence of its child    *)
(* elements.  The children of <Project> are in proj, where the container   *)
(* elements <Tasks>, <Resources>, <Assignments> and <Calendars> appear     *)
(* with empty kids at their position; their contents are the variables     *)
(* tasks, resources, assignments and calendars (each a sequence of the     *)
(* child sequences of the <Task>, <Resource>, ... elements).               *)
(***************************************************************************)
EXTENDS Integers, Sequences, FiniteSets, TLC

VARIABLES proj, tasks, resources, assignments, calendars,
          errors, repairs, task_uids, resource_uids, cycle_found,
          pc, run, repair_mode, well_formed, output_file, written,
          result, raised, docIn, tasksBefore, out_doc

vars == <<proj, tasks, resources, assignments, calendars,
          errors, repairs, task_uids, resource_uids, cycle_found,
          pc, run, repair_mode, well_formed, output_file, written,
          result, raised, docIn, tasksBefore, out_doc>>

docVars == <<proj, tasks, resources, assignments, calendars>>

Doc == [proj |-> proj, tasks |-> tasks, resources |-> resources,
        assignments |-> assignments, calendars |-> calendars]

(***************************************************************************)
(* Bounds of the input families.                                           *)
(***************************************************************************)
NumTasks == 3
MaxEdges == 2
MaxCycleEdges == 3

(***************************************************************************)
(* Text and element helpers.                                               *)
(***************************************************************************)
Digits == {"0", "1", "2", "3", "4", "5", "6", "7", "8", "9"}

DigitVal(c) ==
  CASE c = "0" -> 0 [] c = "1" -> 1 [] c = "2" -> 2 [] c = "3" -> 3
    [] c = "4" -> 4 [] c = "5" -> 5 [] c = "6" -> 6 [] c = "7" -> 7
    [] c = "8" -> 8 [] c = "9" -> 9

DigitChar(n) ==
  CASE n = 0 -> "0" [] n = 1 -> "1" [] n = 2 -> "2" [] n = 3 -> "3"
    [] n = 4 -> "4" [] n = 5 -> "5" [] n = 6 -> "6" [] n = 7 -> "7"
    [] n = 8 -> "8" [] n = 9 -> "9"

\* int(text) for a text of decimal digits
RECURSIVE ToInt(_)
ToInt(s) ==
  IF s = <<>> THEN 0
  ELSE ToInt(SubSeq(s, 1, Len(s) - 1)) * 10 + DigitVal(s[Len(s)])

\* str(n) for a natural number
RECURSIVE ToText(_)
ToText(n) ==
  IF n < 10 THEN <<DigitChar(n)>>
  ELSE Append(ToText(n \div 10), DigitChar(n % 10))

Elem(tag, text) == [tag |-> tag, text |-> text, kids |-> <<>>]
Node(tag, kids) == [tag |-> tag, text |-> <<>>, kids |-> kids]

\* find_one(element, 'ns:<tag>'): position of the first child with the tag,
\* 0 for None
find_one(kids, tag) ==
  IF \E i \in 1..Len(kids) : kids[i].tag = tag
  THEN CHOOSE i \in 1..Len(kids) :
         kids[i].tag = tag /\ \A j \in 1..(i - 1) : kids[j].tag # tag
  ELSE 0

Has(kids, tag) == find_one(kids, tag) # 0
TextOf(kids, tag) == kids[find_one(kids, tag)].text

\* find_all(element, 'ns:<tag>') over the children
find_all(kids, tag) ==
  LET Test(e) == e.tag = tag IN SelectSeq(kids, Test)

\* element.remove(child): the first occurrence of the child is taken out
RemoveFirst(kids, e) ==
  IF \E i \in 1..Len(kids) : kids[i] = e
  THEN LET i == CHOOSE k \in 1..Len(kids) :
                  kids[k] = e /\ \A j \in 1..(k - 1) : kids[j] # e
       IN SubSeq(kids, 1, i - 1) \o SubSeq(kids, i + 1, Len(kids))
  ELSE kids

RemoveAt(kids, i) == SubSeq(kids, 1, i - 1) \o SubSeq(kids, i + 1, Len(kids))
InsertAt(kids, i, e) == SubSeq(kids, 1, i - 1) \o <<e>> \o SubSeq(kids, i, Len(kids))

Range(s) == {s[i] : i \in 1..Len(s)}

(***************************************************************************)
(* config.py and the regular expressions of repairs.py, on texts.          *)
(***************************************************************************)
IsDigitAt(s, i) == i >= 1 /\ i <= Len(s) /\ s[i] \in Digits
IsCharAt(s, i, c) == i >= 1 /\ i <= Len(s) /\ s[i] = c

\* \d{4}-\d{2}-\d{2} at positions 1..10
DatePartAt(s) ==
  /\ \A i \in {1, 2, 3, 4, 6, 7, 9, 10} : IsDigitAt(s, i)
  /\ IsCharAt(s, 5, "-") /\ IsCharAt(s, 8, "-")

\* \d{2}:\d{2}:\d{2} from position i on
TimePartAt(s, i) ==
  /\ \A k \in {i, i + 1, i + 3, i + 4, i + 6, i + 7} : IsDigitAt(s, k)
  /\ IsCharAt(s, i + 2, ":") /\ IsCharAt(s, i + 5, ":")

\* repairs.py line 185: re.match without the closing $, a prefix match
DatePrefixMatch(s) == DatePartAt(s) /\ IsCharAt(s, 11, "T") /\ TimePartAt(s, 12)

\* config.py line 6: DATE_REGEX
DATE_REGEX(s) == DatePrefixMatch(s) /\ Len(s) = 19

\* the position after the run of digits that starts at i (i itself if none)
RECURSIVE DigitsEnd(_, _)
DigitsEnd(s, i) == IF IsDigitAt(s, i) THEN DigitsEnd(s, i + 1) ELSE i

\* PT\d+H\d+M\d+S from position 1 on; 0 if it does not match, else the
\* position after the S
DurationPrefixEnd(s) ==
  LET h == DigitsEnd(s, 3)
      m == DigitsEnd(s, h + 1)
      x == DigitsEnd(s, m + 1)
  IN IF /\ IsCharAt(s, 1, "P") /\ IsCharAt(s, 2, "T")
        /\ h > 3 /\ IsCharAt(s, h, "H")
        /\ m > h + 1 /\ IsCharAt(s, m, "M")
        /\ x > m + 1 /\ IsCharAt(s, x, "S")
     THEN x + 1 ELSE 0

\* config.py line 9: DURATION_REGEX
DURATION_REGEX(s) == DurationPrefixEnd(s) = Len(s) + 1

\* repairs.py line 201: re.sub(r'PT(\d+)Two', r'PT\1', text)
RECURSIVE SubTwo(_, _)
SubTwo(s, i) ==
  IF i > Len(s) THEN <<>>
  ELSE LET d == DigitsEnd(s, i + 2) IN
       IF /\ IsCharAt(s, i, "P") /\ IsCharAt(s, i + 1, "T") /\ d > i + 2
          /\ IsCharAt(s, d, "T") /\ IsCharAt(s, d + 1, "w") /\ IsCharAt(s, d + 2, "o")
       THEN SubSeq(s, i, d - 1) \o SubTwo(s, d + 3)
       ELSE <<s[i]>> \o SubTwo(s, i + 1)

\* line 202 with the digit 0 taken for the letter O as well
RECURSIVE SubLetterOOrZero(_, _)
SubLetterOOrZero(s, i) ==
  IF i > Len(s) THEN <<>>
  ELSE IF IsDigitAt(s, i) /\ (IsCharAt(s, i + 1, "O") \/ IsCharAt(s, i + 1, "o")
                                \/ IsCharAt(s, i + 1, "0"))
          /\ IsDigitAt(s, i + 2)
       THEN <<s[i], s[i + 2]>> \o SubLetterOOrZero(s, i + 3)
       ELSE <<s[i]>> \o SubLetterOOrZero(s, i + 1)

\* repairs.py line 202: re.sub(r'(\d)[Oo](\d)', r'\1\2', text)
RECURSIVE SubLetterO(_, _)
SubLetterO(s, i) ==
  IF i > Len(s) THEN <<>>
  ELSE IF IsDigitAt(s, i) /\ (IsCharAt(s, i + 1, "O") \/ IsCharAt(s, i + 1, "o"))
          /\ IsDigitAt(s, i + 2)
       THEN <<s[i], s[i + 2]>> \o SubLetterO(s, i + 3)
       ELSE <<s[i]>> \o SubLetterO(s, i + 1)

FixDurationText(s) == SubLetterO(SubTwo(s, 1), 1)

\* utils.py parse_duration, in seconds (the code returns minutes as a float:
\* hours * 60 + minutes + seconds / 60)
parse_duration_seconds(s) ==
  IF s = <<>> \/ DurationPrefixEnd(s) = 0 THEN 0
  ELSE LET h == DigitsEnd(s, 3)
           m == DigitsEnd(s, h + 1)
           x == DigitsEnd(s, m + 1)
       IN ToInt(SubSeq(s, 3, h - 1)) * 3600 + ToInt(SubSeq(s, h + 1, m - 1)) * 60
            + ToInt(SubSeq(s, m + 1, x - 1))

(***************************************************************************)
(* datetime: calendar dates as day numbers, date-times as seconds.         *)
(***************************************************************************)
IsLeap(y) == (y % 4 = 0 /\ y % 100 # 0) \/ y % 400 = 0

DaysInMonth(y, m) ==
  IF m = 2 THEN (IF IsLeap(y) THEN 29 ELSE 28)
  ELSE IF m \in {4, 6, 9, 11} THEN 30 ELSE 31

\* days from 2000-01-01 to y-01-01, for y >= 2000
DaysBeforeYear(y) ==
  LET n == y - 2000
  IN n * 365 + ((n + 3) \div 4) - ((n + 99) \div 100) + ((n + 399) \div 400)

RECURSIVE DaysBeforeMonth(_, _)
DaysBeforeMonth(y, m) ==
  IF m = 1 THEN 0 ELSE DaysBeforeMonth(y, m - 1) + DaysInMonth(y, m - 1)

DayNumber(y, m, d) == DaysBeforeYear(y) + DaysBeforeMonth(y, m) + (d - 1)

RECURSIVE YearOfDay(_, _)
YearOfDay(n, y) == IF DaysBeforeYear(y + 1) > n THEN y ELSE YearOfDay(n, y + 1)

RECURSIVE MonthOfDay(_, _, _)
MonthOfDay(n, y, m) ==
  IF DaysBeforeMonth(y, m) + DaysInMonth(y, m) > n THEN m ELSE MonthOfDay(n, y, m + 1)

Pad2(n) == <<DigitChar(n \div 10), DigitChar(n % 10)>>
Pad4(n) == <<DigitChar(n \div 1000), DigitChar((n \div 100) % 10),
             DigitChar((n \div 10) % 10), DigitChar(n % 10)>>

\* strftime('%Y-%m-%dT%H:%M:%S') of the date-time t seconds after 2000-01-01
FormatDateTime(t) ==
  LET n == t \div 86400
      r == t % 86400
      y == YearOfDay(n, 2000 + (n \div 366))
      m == MonthOfDay(n - DaysBeforeYear(y), y, 1)
      d == n - DaysBeforeYear(y) - DaysBeforeMonth(y, m) + 1
  IN Pad4(y) \o <<"-">> \o Pad2(m) \o <<"-">> \o Pad2(d) \o <<"T">>
       \o Pad2(r \div 3600) \o <<":">> \o Pad2((r \div 60) % 60) \o <<":">> \o Pad2(r % 60)

ValidDate(y, m, d) == y >= 2000 /\ m \in 1..12 /\ d >= 1 /\ d <= DaysInMonth(y, m)
ValidTime(h, mi, sec) == h <= 23 /\ mi <= 59 /\ sec <= 59

Num(s, i, j) == ToInt(SubSeq(s, i, j))

\* datetime.strptime(text, '%Y-%m-%dT%H:%M:%S') for texts with two-digit
\* fields: the seconds after 2000-01-01, or -1 for ValueError
strptime(s) ==
  IF DATE_REGEX(s) /\ ValidDate(Num(s, 1, 4), Num(s, 6, 7), Num(s, 9, 10))
     /\ ValidTime(Num(s, 12, 13), Num(s, 15, 16), Num(s, 18, 19))
  THEN DayNumber(Num(s, 1, 4), Num(s, 6, 7), Num(s, 9, 10)) * 86400
         + Num(s, 12, 13) * 3600 + Num(s, 15, 16) * 60 + Num(s, 18, 19)
  ELSE -1

\* [+-]HH:MM from position i to the end of the text
OffsetAt(s, i) ==
  /\ Len(s) = i + 5 /\ (IsCharAt(s, i, "+") \/ IsCharAt(s, i, "-"))
  /\ IsDigitAt(s, i + 1) /\ IsDigitAt(s, i + 2) /\ IsCharAt(s, i + 3, ":")
  /\ IsDigitAt(s, i + 4) /\ IsDigitAt(s, i + 5)
  /\ Num(s, i + 1, i + 2) <= 23 /\ Num(s, i + 4, i + 5) <= 59

\* text.replace('Z', '+00:00')
RECURSIVE ReplaceZ(_)
ReplaceZ(s) ==
  IF s = <<>> THEN <<>>
  ELSE (IF Head(s) = "Z" THEN <<"+", "0", "0", ":", "0", "0">> ELSE <<Head(s)>>)
         \o ReplaceZ(Tail(s))

\* repairs.py lines 189-190: datetime.fromisoformat(...).strftime(...) on
\* YYYY-MM-DD, optionally followed by one separator character, HH:MM or
\* HH:MM:SS and a zone offset; <<>> stands for the exception
ReformatDate(text) ==
  LET s == ReplaceZ(text)
      okDate == DatePartAt(s) /\ ValidDate(Num(s, 1, 4), Num(s, 6, 7), Num(s, 9, 10))
      hasMin == IsDigitAt(s, 12) /\ IsDigitAt(s, 13) /\ IsCharAt(s, 14, ":")
                  /\ IsDigitAt(s, 15) /\ IsDigitAt(s, 16)
      hasSec == hasMin /\ IsCharAt(s, 17, ":") /\ IsDigitAt(s, 18) /\ IsDigitAt(s, 19)
      timeEnd == IF hasSec THEN 19 ELSE 16
      okTime == /\ hasMin
                /\ ValidTime(Num(s, 12, 13), Num(s, 15, 16),
                             IF hasSec THEN Num(s, 18, 19) ELSE 0)
                /\ (Len(s) = timeEnd \/ OffsetAt(s, timeEnd + 1))
  IN IF okDate /\ Len(s) = 10
     THEN SubSeq(s, 1, 10) \o <<"T", "0", "0", ":", "0", "0", ":", "0", "0">>
     ELSE IF okDate /\ Len(s) >= 16 /\ okTime
     THEN SubSeq(s, 1, 10) \o <<"T">> \o SubSeq(s, 12, 16)
            \o (IF hasSec THEN SubSeq(s, 17, 19) ELSE <<":", "0", "0">>)
     ELSE <<>>

(***************************************************************************)
(* The two ledgers: a mapping category -> ordered list of messages.  A     *)
(* message is [code, args]: the template of the f-string and the texts     *)
(* substituted into it.                                                    *)
(***************************************************************************)
Msg(code, args) == [code |-> code, field |-> "", args |-> args]
MsgF(code, field, args) == [code |-> code, field |-> field, args |-> args]

\* log_error that starts the mapping afresh with the new message
LogErrorAfresh(errs, category, message) == (category :> <<message>>)

log_error(errs, category, message) ==
  IF category \in DOMAIN errs
  THEN [errs EXCEPT ![category] = Append(@, message)]
  ELSE errs @@ (category :> <<message>>)

log_repair(reps, category, message) ==
  IF category \in DOMAIN reps
  THEN [reps EXCEPT ![category] = Append(@, message)]
  ELSE reps @@ (category :> <<message>>)

EmptyLedger == <<>>

TxtTaskUID == <<"T", "a", "s", "k", " ", "U", "I", "D", " ">>
TxtTask == <<"T", "a", "s", "k", " ">>
TxtUnknownTask == <<"U", "n", "k", "n", "o", "w", "n", " ", "T", "a", "s", "k">>
TxtUnknown == <<"U", "n", "k", "n", "o", "w", "n">>
TxtNone == <<"N", "o", "n", "e">>

get_task_name(task) ==
  IF Has(task, "Name") /\ TextOf(task, "Name") # <<>> THEN TextOf(task, "Name")
  ELSE IF Has(task, "UID") THEN TxtTaskUID \o TextOf(task, "UID")
  ELSE TxtUnknownTask

IsSummary(task) == Has(task, "Summary") /\ TextOf(task, "Summary") = <<"1">>

PredLinks(task) == find_all(task, "PredecessorLink")

HasPredUid(link) == Has(link.kids, "PredecessorUID")
PredUid(link) == TextOf(link.kids, "PredecessorUID")

(***************************************************************************)
(* The tree under <Project> and find('.//ns:<tag>') on it.                 *)
(***************************************************************************)
Wrap(tag, seqOfKids) == [i \in 1..Len(seqOfKids) |-> Node(tag, seqOfKids[i])]

RootKids(doc) ==
  [i \in 1..Len(doc.proj) |->
     IF doc.proj[i].tag = "Tasks" THEN Node("Tasks", Wrap("Task", doc.tasks))
     ELSE IF doc.proj[i].tag = "Resources" THEN Node("Resources", Wrap("Resource", doc.resources))
     ELSE IF doc.proj[i].tag = "Assignments" THEN Node("Assignments", Wrap("Assignment", doc.assignments))
     ELSE IF doc.proj[i].tag = "Calendars" THEN Node("Calendars", Wrap("Calendar", doc.calendars))
     ELSE doc.proj[i]]

\* the descendants in document order
RECURSIVE Flatten(_)
Flatten(kids) ==
  IF kids = <<>> THEN <<>>
  ELSE IF Len(kids) = 1 THEN <<kids[1]>> \o Flatten(kids[1].kids)
  ELSE LET half == Len(kids) \div 2
       IN Flatten(SubSeq(kids, 1, half)) \o Flatten(SubSeq(kids, half + 1, Len(kids)))

\* find_all(element, './/ns:<tag>')
find_all_deep(kids, tag) ==
  LET Test(e) == e.tag = tag IN SelectSeq(Flatten(kids), Test)

DocTags(doc) == {e.tag : e \in Range(Flatten(RootKids(doc)))}

(***************************************************************************)
(* validators.py: check_unique_uids                                        *)
(***************************************************************************)
TxtKindTask == <<"T", "a", "s", "k">>
TxtKindResource == <<"R", "e", "s", "o", "u", "r", "c", "e">>
TxtKindAssignment == <<"A", "s", "s", "i", "g", "n", "m", "e", "n", "t">>
TxtProject == <<"P", "r", "o", "j", "e", "c", "t">>

\* one set for all the kinds instead of a set per kind
SharedUidSet(previous) == previous

\* lines 49-51: every kind starts with its own empty set
FreshUidSet(previous) == {}

\* lines 55-62 for the elements of one kind, from element k on
RECURSIVE ScanUids(_, _, _, _)
ScanUids(elements, k, name, st) ==
  IF k > Len(elements) THEN st
  ELSE IF ~Has(elements[k], "UID") THEN ScanUids(elements, k + 1, name, st)
  ELSE LET uid == TextOf(elements[k], "UID") IN
       ScanUids(elements, k + 1, name,
                [uid_set |-> st.uid_set \cup {uid},
                 errs |-> IF uid \in st.uid_set
                          THEN log_error(st.errs, "Duplicate UIDs",
                                         Msg("Duplicate UID found", <<name, uid>>))
                          ELSE st.errs])

check_unique_uids(doc, errs) ==
  LET t == ScanUids(doc.tasks, 1, TxtKindTask, [uid_set |-> {}, errs |-> errs])
      r == ScanUids(doc.resources, 1, TxtKindResource,
                    [uid_set |-> FreshUidSet(t.uid_set), errs |-> t.errs])
      a == ScanUids(doc.assignments, 1, TxtKindAssignment,
                    [uid_set |-> FreshUidSet(r.uid_set), errs |-> r.errs])
  IN [task_uids |-> t.uid_set, resource_uids |-> r.uid_set, errs |-> a.errs]

(***************************************************************************)
(* validators.py: check_referential_integrity                              *)
(***************************************************************************)
\* lines 82-93
RECURSIVE CheckAssignments(_, _, _, _, _)
CheckAssignments(assigns, k, tuids, ruids, errs) ==
  IF k > Len(assigns) THEN errs
  ELSE LET assign == assigns[k] IN
    IF ~Has(assign, "UID") \/ ~Has(assign, "TaskUID") \/ ~Has(assign, "ResourceUID")
    THEN CheckAssignments(assigns, k + 1, tuids, ruids, errs)
    ELSE
      LET e1 == IF TextOf(assign, "TaskUID") \notin tuids
                THEN log_error(errs, "Broken References",
                               Msg("Assignment points to non-existent TaskUID",
                                   <<TextOf(assign, "UID"), TextOf(assign, "TaskUID")>>))
                ELSE errs
          e2 == IF TextOf(assign, "ResourceUID") \notin ruids
                THEN log_error(e1, "Broken References",
                               Msg("Assignment points to non-existent ResourceUID",
                                   <<TextOf(assign, "UID"), TextOf(assign, "ResourceUID")>>))
                ELSE e1
      IN CheckAssignments(assigns, k + 1, tuids, ruids, e2)

\* lines 94-102: a link with a PredecessorUID outside task_uids takes the
\* loop to line 99, where link.find('../ns:Name') is called without the
\* namespace map and raises SyntaxError (prefix 'ns' not found in prefix map)
PredecessorLookupRaises(doc, tuids) ==
  \E l \in Range(find_all_deep(RootKids(doc), "PredecessorLink")) :
    HasPredUid(l) /\ PredUid(l) \notin tuids


check_referential_integrity(doc, tuids, ruids, errs) ==
  [errs |-> CheckAssignments(doc.assignments, 1, tuids, ruids, errs),
   raised |-> PredecessorLookupRaises(doc, tuids)]

(***************************************************************************)
(* validators.py: check_data_formats                                       *)
(***************************************************************************)
FirstInDoc(doc, tag) == find_all_deep(RootKids(doc), tag)

\* lines 119-124
RECURSIVE CheckProjectDates(_, _, _, _)
CheckProjectDates(doc, tags, k, errs) ==
  IF k > Len(tags) THEN errs
  ELSE LET found == FirstInDoc(doc, tags[k]) IN
    IF found # <<>> /\ found[1].text # <<>> /\ ~DATE_REGEX(found[1].text)
    THEN CheckProjectDates(doc, tags, k + 1,
           log_error(errs, "Data Formats",
                     MsgF("Invalid date format", tags[k], <<TxtProject, found[1].text>>)))
    ELSE CheckProjectDates(doc, tags, k + 1, errs)

\* lines 127-136 for one task and one list of tags
RECURSIVE CheckTaskFields(_, _, _, _, _)
CheckTaskFields(task, tags, k, isDate, errs) ==
  IF k > Len(tags) THEN errs
  ELSE
    IF /\ Has(task, tags[k]) /\ TextOf(task, tags[k]) # <<>>
       /\ ~(IF isDate THEN DATE_REGEX(TextOf(task, tags[k]))
            ELSE DURATION_REGEX(TextOf(task, tags[k])))
    THEN CheckTaskFields(task, tags, k + 1, isDate,
           log_error(errs, "Data Formats",
                     MsgF(IF isDate THEN "Invalid date format" ELSE "Invalid duration format",
                          tags[k], <<get_task_name(task), TextOf(task, tags[k])>>)))
    ELSE CheckTaskFields(task, tags, k + 1, isDate, errs)

RECURSIVE CheckTasksFormats(_, _, _)
CheckTasksFormats(ts, k, errs) ==
  IF k > Len(ts) THEN errs
  ELSE CheckTasksFormats(ts, k + 1,
         CheckTaskFields(ts[k], <<"Duration", "Work">>, 1, FALSE,
           CheckTaskFields(ts[k], <<"Start", "Finish">>, 1, TRUE, errs)))

check_data_formats(doc, errs) ==
  CheckTasksFormats(doc.tasks, 1,
    CheckProjectDates(doc, <<"StartDate", "FinishDate", "CurrentDate", "CreationDate">>, 1, errs))

(***************************************************************************)
(* validators.py: check_calendar_logic                                     *)
(***************************************************************************)
IsNumber(s) == s # <<>> /\ \A i \in 1..Len(s) : s[i] \in Digits

\* str(n) for an integer
IntText(n) == IF n < 0 THEN <<"-">> \o ToText(0 - n) ELSE ToText(n)

\* int(x) of a quotient: truncation towards zero
TruncDiv(a, b) == IF a >= 0 THEN a \div b ELSE 0 - ((0 - a) \div b)

\* datetime.strptime(text, '%H:%M:%S') for a text HH:MM:SS
ClockOk(s) ==
  /\ Len(s) = 8 /\ TimePartAt(s, 1)
  /\ ValidTime(Num(s, 1, 2), Num(s, 4, 5), Num(s, 7, 8))
ClockSeconds(s) == Num(s, 1, 2) * 3600 + Num(s, 4, 5) * 60 + Num(s, 7, 8)

WorkingDay(day) == Has(day.kids, "DayWorking") /\ TextOf(day.kids, "DayWorking") = <<"1">>

RECURSIVE CollectWorkingTimes(_, _)
CollectWorkingTimes(days, k) ==
  IF k > Len(days) THEN <<>>
  ELSE find_all_deep(days[k].kids, "WorkingTime") \o CollectWorkingTimes(days, k + 1)

\* the WorkingTime elements of the working days of the calendar
WorkingTimes(cal) ==
  LET Test(d) == WorkingDay(d)
  IN CollectWorkingTimes(SelectSeq(find_all_deep(cal.kids, "WeekDay"), Test), 1)

WorkingTimeOk(wt) ==
  /\ Has(wt.kids, "FromTime") /\ ClockOk(TextOf(wt.kids, "FromTime"))
  /\ Has(wt.kids, "ToTime") /\ ClockOk(TextOf(wt.kids, "ToTime"))

RECURSIVE SumSeconds(_, _)
SumSeconds(wts, k) ==
  IF k > Len(wts) THEN 0
  ELSE ClockSeconds(TextOf(wts[k].kids, "ToTime"))
         - ClockSeconds(TextOf(wts[k].kids, "FromTime")) + SumSeconds(wts, k + 1)

\* the first Calendar of the document with a UID child of that text
BaseCalendar(doc, uid) ==
  LET Test(c) == \E e \in Range(c.kids) : e.tag = "UID" /\ e.text = uid
  IN SelectSeq(find_all_deep(RootKids(doc), "Calendar"), Test)

check_calendar_logic(doc, errs) ==
  LET mpw == FirstInDoc(doc, "MinutesPerWeek")
      cuid == FirstInDoc(doc, "CalendarUID")
      CouldNotParse == log_error(errs, "Calendar Logic",
                                 Msg("Could not parse calendar logic", <<>>))
  IN
  IF mpw = <<>> THEN errs
  ELSE IF ~IsNumber(mpw[1].text) THEN CouldNotParse
  ELSE IF cuid = <<>> THEN errs
  ELSE
    LET project_minutes == ToInt(mpw[1].text)
        base_cal == BaseCalendar(doc, cuid[1].text)
    IN
    IF base_cal = <<>>
    THEN log_error(errs, "Calendar Logic",
                   Msg("Project CalendarUID not found in <Calendars>", <<cuid[1].text>>))
    ELSE
      LET wts == WorkingTimes(base_cal[1]) IN
      IF \E w \in Range(wts) : ~WorkingTimeOk(w) THEN CouldNotParse
      ELSE
        LET calculated_minutes == TruncDiv(SumSeconds(wts, 1), 60) IN
        IF calculated_minutes # project_minutes
        THEN log_error(errs, "Calendar Logic",
                       Msg("<MinutesPerWeek> differs from the base calendar",
                           <<IntText(project_minutes), IntText(calculated_minutes)>>))
        ELSE errs

(***************************************************************************)
(* repairs.py: fix_summary_task_predecessors                               *)
(***************************************************************************)
\* lines 45-56: the scan for the first non-summary task below the summary;
\* 0 when the scan ends without one
RECURSIVE FirstChild(_, _, _)
FirstChild(all_tasks, next_idx, current_level) ==
  IF next_idx > Len(all_tasks) THEN 0
  ELSE LET next_task == all_tasks[next_idx]
           next_level == IF Has(next_task, "OutlineLevel")
                         THEN ToInt(TextOf(next_task, "OutlineLevel"))
                         ELSE 999
       IN IF next_level <= current_level THEN 0
          ELSE IF ~IsSummary(next_task) THEN next_idx
          ELSE FirstChild(all_tasks, next_idx + 1, current_level)

\* line 63 without the test: every link of the summary task is moved
NotAmongAny(pred_uid, existing_preds) == TRUE

\* line 63: if pred_uid not in existing_preds
NotAmong(pred_uid, existing_preds) == pred_uid \notin existing_preds

\* lines 58-78: the links of the summary task idx go to the task child.
\* st = [ts, reps, raised]
RECURSIVE MoveLinks(_, _, _, _, _)
MoveLinks(pred_links, k, idx, child, st) ==
  IF k > Len(pred_links) \/ st.raised THEN st
  ELSE
    LET link == pred_links[k]
        task == st.ts[idx]
        first_child_task == st.ts[child]
        uid == IF Has(task, "UID") THEN TextOf(task, "UID") ELSE TxtUnknown
        task_name == IF Has(task, "Name") THEN TextOf(task, "Name")
                     ELSE TxtTask \o uid
    IN
    IF ~HasPredUid(link) THEN MoveLinks(pred_links, k + 1, idx, child, st)
    ELSE IF \E l \in Range(PredLinks(first_child_task)) : ~HasPredUid(l)
    THEN [st EXCEPT !.raised = TRUE]       \* line 62: None has no .text
    ELSE
      LET pred_uid == PredUid(link)
          existing_preds == {PredUid(l) : l \in Range(PredLinks(first_child_task))}
          new_link == Node("PredecessorLink",
                           <<Elem("PredecessorUID", pred_uid),
                             Elem("Type", IF Has(link.kids, "Type")
                                          THEN TextOf(link.kids, "Type")
                                          ELSE <<"1">>)>>)
          first_child_uid == TextOf(first_child_task, "UID")
          first_child_name == get_task_name(first_child_task)
          moved == NotAmong(pred_uid, existing_preds)
          ts1 == IF moved
                 THEN [st.ts EXCEPT ![child] = Append(@, new_link)]
                 ELSE st.ts
          ts2 == [ts1 EXCEPT ![idx] = RemoveFirst(@, link)]
          message == IF moved
                     THEN Msg("Moved PredecessorLink from summary task to first child",
                              <<task_name, uid, first_child_name, first_child_uid, pred_uid>>)
                     ELSE Msg("Removed duplicate PredecessorLink from summary task",
                              <<task_name, uid, pred_uid>>)
      IN MoveLinks(pred_links, k + 1, idx, child,
                   [st EXCEPT !.ts = ts2,
                              !.reps = log_repair(st.reps, "Summary Task Dependencies", message)])

\* lines 80-86: no child, every link of the summary task is removed
RECURSIVE DropLinks(_, _, _, _)
DropLinks(pred_links, k, idx, st) ==
  IF k > Len(pred_links) THEN st
  ELSE
    LET link == pred_links[k]
        task == st.ts[idx]
        uid == IF Has(task, "UID") THEN TextOf(task, "UID") ELSE TxtUnknown
        task_name == IF Has(task, "Name") THEN TextOf(task, "Name")
                     ELSE TxtTask \o uid
        pred_uid == IF HasPredUid(link) THEN PredUid(link) ELSE TxtUnknown
        message == Msg("Removed PredecessorLink from summary task with no children",
                       <<task_name, uid, pred_uid>>)
    IN DropLinks(pred_links, k + 1, idx,
                 [st EXCEPT !.ts = [st.ts EXCEPT ![idx] = RemoveFirst(@, link)],
                            !.reps = log_repair(st.reps, "Summary Task Dependencies", message)])

\* lines 30-86: the loop over all tasks, from task idx on
RECURSIVE FixSummaryFrom(_, _)
FixSummaryFrom(idx, st) ==
  IF idx > Len(st.ts) \/ st.raised THEN st
  ELSE
    LET task == st.ts[idx]
        current_level == IF Has(task, "OutlineLevel")
                         THEN ToInt(TextOf(task, "OutlineLevel")) ELSE 0
        pred_links == PredLinks(task)
        child == FirstChild(st.ts, idx + 1, current_level)
    IN
    IF ~IsSummary(task) \/ pred_links = <<>> THEN FixSummaryFrom(idx + 1, st)
    ELSE IF child # 0 /\ ~Has(st.ts[child], "UID")
    THEN [st EXCEPT !.raised = TRUE]       \* line 54: None has no .text
    ELSE IF child # 0
    THEN FixSummaryFrom(idx + 1, MoveLinks(pred_links, 1, idx, child, st))
    ELSE FixSummaryFrom(idx + 1, DropLinks(pred_links, 1, idx, st))

fix_summary_task_predecessors(ts, reps) ==
  FixSummaryFrom(1, [ts |-> ts, reps |-> reps, raised |-> FALSE])

(***************************************************************************)
(* repairs.py: detect_circular_dependencies                                *)
(***************************************************************************)
\* lines 113-121: the keys of the dict tasks, in insertion order (a UID that
\* occurs again keeps its first position)
RECURSIVE TaskKeys(_, _)
TaskKeys(ts, i) ==
  IF i = 0 THEN <<>>
  ELSE LET before == TaskKeys(ts, i - 1) IN
       IF Has(ts[i], "UID") /\ TextOf(ts[i], "UID") \notin Range(before)
       THEN Append(before, TextOf(ts[i], "UID"))
       ELSE before

\* tasks[uid]: the dict holds the last task element that carries the UID
TaskOf(ts, uid) ==
  CHOOSE i \in 1..Len(ts) :
    /\ Has(ts[i], "UID") /\ TextOf(ts[i], "UID") = uid
    /\ \A j \in (i + 1)..Len(ts) : ~(Has(ts[j], "UID") /\ TextOf(ts[j], "UID") = uid)

\* lines 122-130: the (pred_uid, task_uid) pairs in the order they are met
RECURSIVE GraphEdges(_, _, _)
GraphEdges(ts, keys, k) ==
  IF k > Len(keys) THEN <<>>
  ELSE LET task_uid == keys[k]
           links == LET Test(l) == HasPredUid(l)
                    IN SelectSeq(PredLinks(ts[TaskOf(ts, task_uid)]), Test)
       IN [i \in 1..Len(links) |-> <<PredUid(links[i]), task_uid>>]
            \o GraphEdges(ts, keys, k + 1)

Neighbors(edges, current) ==
  LET Test(e) == e[1] = current
      sel == SelectSeq(edges, Test)
  IN [i \in 1..Len(sel) |-> sel[i][2]]

InDegree(edges, keys) ==
  [uid \in Range(keys) |-> Cardinality({i \in 1..Len(edges) : edges[i][2] = uid})]

\* lines 136-139: the in-degree of every neighbour goes down by one
RECURSIVE Relax(_, _, _)
Relax(neighbors, k, q) ==
  IF k > Len(neighbors) THEN q
  ELSE LET n == neighbors[k]
           d == q.in_degree[n] - 1
       IN Relax(neighbors, k + 1,
                [in_degree |-> [q.in_degree EXCEPT ![n] = d],
                 queue |-> IF d = 0 THEN Append(q.queue, n) ELSE q.queue,
                 sorted_count |-> q.sorted_count])

\* lines 133-139: the work-queue loop of Kahn's algorithm
RECURSIVE Kahn(_, _)
Kahn(edges, q) ==
  IF q.queue = <<>> THEN q
  ELSE LET current == Head(q.queue)
       IN Kahn(edges, Relax(Neighbors(edges, current), 1,
                            [in_degree |-> q.in_degree,
                             queue |-> Tail(q.queue),
                             sorted_count |-> q.sorted_count + 1]))

KahnResult(ts) ==
  LET keys == TaskKeys(ts, Len(ts))
      edges == GraphEdges(ts, keys, 1)
      in_degree == InDegree(edges, keys)
      Zero(uid) == in_degree[uid] = 0
  IN Kahn(edges, [in_degree |-> in_degree,
                  queue |-> SelectSeq(keys, Zero),
                  sorted_count |-> 0])

\* the threshold of line 143 off by one
CyclicTasksAboveOne(ts) ==
  LET keys == TaskKeys(ts, Len(ts))
      q == KahnResult(ts)
      Positive(uid) == q.in_degree[uid] > 1
  IN SelectSeq(keys, Positive)

\* line 143
CyclicTasks(ts) ==
  LET keys == TaskKeys(ts, Len(ts))
      q == KahnResult(ts)
      Positive(uid) == q.in_degree[uid] > 0
  IN SelectSeq(keys, Positive)

\* line 153 without the membership test
IsCircularLinkAny(link, cyclic_tasks) ==
  HasPredUid(link)

\* line 153: the link goes when its predecessor is one of the cyclic tasks
IsCircularLink(link, cyclic_tasks) ==
  HasPredUid(link) /\ PredUid(link) \in Range(cyclic_tasks)

\* lines 147-156 for one task of cyclic_tasks
RECURSIVE CutLinks(_, _, _, _, _)
CutLinks(pred_links, k, idx, cyclic_tasks, st) ==
  IF k > Len(pred_links) THEN st
  ELSE
    LET link == pred_links[k]
        task_name == get_task_name(st.ts[idx])
    IN IF IsCircularLink(link, cyclic_tasks)
       THEN CutLinks(pred_links, k + 1, idx, cyclic_tasks,
              [ts |-> [st.ts EXCEPT ![idx] = RemoveFirst(@, link)],
               reps |-> log_repair(st.reps, "Circular Dependencies",
                          Msg("Removed circular PredecessorLink",
                              <<task_name, PredUid(link)>>))])
       ELSE CutLinks(pred_links, k + 1, idx, cyclic_tasks, st)

\* lines 144-156
RECURSIVE CutCycles(_, _, _)
CutCycles(cyclic_tasks, k, st) ==
  IF k > Len(cyclic_tasks) THEN st
  ELSE LET idx == TaskOf(st.ts, cyclic_tasks[k])
       IN CutCycles(cyclic_tasks, k + 1,
                    CutLinks(PredLinks(st.ts[idx]), 1, idx, cyclic_tasks, st))

\* the whole function: [ts, reps, found]
detect_circular_dependencies(ts, reps) ==
  LET keys == TaskKeys(ts, Len(ts))
      q == KahnResult(ts)
  IN IF q.sorted_count < Len(keys)
     THEN LET st == CutCycles(CyclicTasks(ts), 1, [ts |-> ts, reps |-> reps])
          IN [ts |-> st.ts, reps |-> st.reps, found |-> TRUE]
     ELSE [ts |-> ts, reps |-> reps, found |-> FALSE]

(***************************************************************************)
(* repairs.py: fix_date_formats.  root.iter(tag) meets the children of     *)
(* <Project> and of the Task, Resource and Assignment elements in document *)
(* order (the calendars of the input families hold none of the tags).      *)
(* acc = [errs, reps, bound, raised]: bound tells whether the local        *)
(* variable parent has been assigned (lines 186 and 205).                  *)
(***************************************************************************)
\* lines 187-195 for one element whose text is not in the standard form;
\* fixed is the reformatted text, <<>> when the conversion raised
FixDateOutcome(text, tag, acc, fixed) ==
  IF fixed # <<>>
  THEN [text |-> fixed,
        acc |-> [acc EXCEPT !.bound = TRUE,
                            !.reps = log_repair(acc.reps, "Data Formats",
                                       MsgF("Fixed date format", tag,
                                            <<TxtProject, text, fixed>>))]]
  ELSE [text |-> text,
        acc |-> [acc EXCEPT !.bound = TRUE,
                            !.errs = log_error(acc.errs, "Data Formats",
                                       MsgF("Could not fix invalid date format", tag,
                                            <<TxtProject, text>>))]]

\* lines 185-195 for one element
FixDateText(text, tag, acc) ==
  IF text = <<>> \/ DatePrefixMatch(text) THEN [text |-> text, acc |-> acc]
  ELSE FixDateOutcome(text, tag, acc, ReformatDate(text))

\* lines 203-207: the typo repair is recorded if the text changed
DurationTypoLogged(text, tag, acc, fixed) ==
  IF fixed # text
  THEN [acc EXCEPT !.bound = TRUE,
                   !.reps = log_repair(acc.reps, "Data Formats",
                              MsgF("Fixed duration typo", tag,
                                   <<TxtProject, text, fixed>>))]
  ELSE acc

\* lines 208-210; line 209 reads parent, which is unbound unless line 186 or
\* line 205 has run before (UnboundLocalError)
DurationOutcome(tag, a1, fixed) ==
  IF DURATION_REGEX(fixed) THEN [text |-> fixed, acc |-> a1]
  ELSE IF ~a1.bound THEN [text |-> fixed, acc |-> [a1 EXCEPT !.raised = TRUE]]
  ELSE [text |-> fixed,
        acc |-> [a1 EXCEPT !.errs = log_error(a1.errs, "Data Formats",
                                      MsgF("Invalid duration format", tag,
                                           <<TxtProject, fixed>>))]]

DurationTypoOutcome(text, tag, acc, fixed) ==
  DurationOutcome(tag, DurationTypoLogged(text, tag, acc, fixed), fixed)

\* lines 199-210 for one element
FixDurationField(text, tag, acc) ==
  IF text = <<>> THEN [text |-> text, acc |-> acc]
  ELSE DurationTypoOutcome(text, tag, acc, FixDurationText(text))

FixText(text, tag, isDate, acc) ==
  IF isDate THEN FixDateText(text, tag, acc) ELSE FixDurationField(text, tag, acc)

\* the first place from k on that holds an element with one of the tags,
\* 0 if there is none
NextWithTag(kids, k, tags) ==
  IF \E i \in k..Len(kids) : kids[i].tag \in tags
  THEN CHOOSE i \in k..Len(kids) :
         kids[i].tag \in tags /\ \A j \in k..(i - 1) : kids[j].tag \notin tags
  ELSE 0

\* the children of one element, from child k on; r is the outcome for the
\* child at n
RECURSIVE FixKids(_, _, _, _, _)
FixKidsAfter(kids, n, tag, isDate, r) ==
  FixKids([kids EXCEPT ![n].text = r.text], n + 1, tag, isDate, r.acc)

FixKidAt(kids, n, tag, isDate, acc) ==
  IF n = 0 \/ acc.raised THEN [kids |-> kids, acc |-> acc]
  ELSE FixKidsAfter(kids, n, tag, isDate, FixText(kids[n].text, tag, isDate, acc))

FixKids(kids, k, tag, isDate, acc) ==
  FixKidAt(kids, NextWithTag(kids, k, {tag}), tag, isDate, acc)

\* the elements of one container, from element j on; r is the outcome for
\* the element at j
RECURSIVE FixElements(_, _, _, _, _)
FixElementsAfter(elements, j, tag, isDate, r) ==
  FixElements([elements EXCEPT ![j] = r.kids], j + 1, tag, isDate, r.acc)

FixElements(elements, j, tag, isDate, acc) ==
  IF j > Len(elements) \/ acc.raised THEN [elements |-> elements, acc |-> acc]
  ELSE FixElementsAfter(elements, j, tag, isDate,
                        FixKids(elements[j], 1, tag, isDate, acc))

Containers == {"Tasks", "Resources", "Assignments"}

ContainerOf(doc, tag) ==
  IF tag = "Tasks" THEN doc.tasks
  ELSE IF tag = "Resources" THEN doc.resources ELSE doc.assignments

WithContainer(doc, tag, elements) ==
  IF tag = "Tasks" THEN [doc EXCEPT !.tasks = elements]
  ELSE IF tag = "Resources" THEN [doc EXCEPT !.resources = elements]
  ELSE [doc EXCEPT !.assignments = elements]

\* one root.iter(tag) loop, from the child i of <Project> on; n is the next
\* place of <Project> that the loop meets, r the outcome there
RECURSIVE FixTag(_, _, _, _, _)
FixTagAfterContainer(doc, n, tag, isDate, r) ==
  FixTag(WithContainer(doc, doc.proj[n].tag, r.elements), n + 1, tag, isDate, r.acc)

FixTagAfterChild(doc, n, tag, isDate, r) ==
  FixTag([doc EXCEPT !.proj[n].text = r.text], n + 1, tag, isDate, r.acc)

FixTagAt(doc, n, tag, isDate, acc) ==
  IF n = 0 \/ acc.raised THEN [doc |-> doc, acc |-> acc]
  ELSE IF doc.proj[n].tag \in Containers
  THEN FixTagAfterContainer(doc, n, tag, isDate,
         FixElements(ContainerOf(doc, doc.proj[n].tag), 1, tag, isDate, acc))
  ELSE FixTagAfterChild(doc, n, tag, isDate,
         FixText(doc.proj[n].text, tag, isDate, acc))

FixTag(doc, i, tag, isDate, acc) ==
  FixTagAt(doc, NextWithTag(doc.proj, i, Containers \cup {tag}), tag, isDate, acc)

date_tags == <<"Start", "Finish", "StartDate", "FinishDate", "CurrentDate", "CreationDate">>
duration_tags == <<"Duration", "Work">>

\* lines 182-195 for the date tags from tags[k] on, then lines 196-210 for
\* the duration tags
RECURSIVE FixTags(_, _, _)
FixTagsAfter(r, k) == FixTags(r.doc, k + 1, r.acc)

FixTags(doc, k, acc) ==
  IF k > Len(date_tags) + Len(duration_tags) \/ acc.raised
  THEN [doc |-> doc, acc |-> acc]
  ELSE FixTagsAfter(FixTag(doc, 1, (date_tags \o duration_tags)[k],
                           k <= Len(date_tags), acc), k)

\* [doc, acc]
fix_date_formats(doc, errs, reps) ==
  FixTags(doc, 1, [errs |-> errs, reps |-> reps, bound |-> FALSE, raised |-> FALSE])

(***************************************************************************)
(* repairs.py: remove_conflicting_dates                                    *)
(***************************************************************************)
IsMilestone(task) == Has(task, "Milestone") /\ TextOf(task, "Milestone") = <<"1">>

\* line 239 without the milestone test
AllowListedByUid(task) ==
  TextOf(task, "UID") \in {<<"3">>, <<"3", "7">>, <<"3", "9">>, <<"4", "0">>, <<"4", "1">>, <<"4", "2">>}

\* line 239
AllowListed(task) ==
  \/ TextOf(task, "UID") \in {<<"3">>, <<"3", "7">>}
  \/ /\ IsMilestone(task)
     /\ TextOf(task, "UID") \in {<<"3", "9">>, <<"4", "0">>, <<"4", "1">>, <<"4", "2">>}

\* lines 240-251 for one tag
DropDate(st, idx, tag) ==
  IF ~Has(st.ts[idx], tag) THEN st
  ELSE [ts |-> [st.ts EXCEPT ![idx] = RemoveAt(@, find_one(@, tag))],
        reps |-> log_repair(st.reps, "Date Constraints",
                   MsgF("Removed explicit date to allow schedule calculation", tag,
                        <<get_task_name(st.ts[idx]), TextOf(st.ts[idx], "UID")>>))]

RECURSIVE RemoveDatesFrom(_, _)
RemoveDatesFrom(idx, st) ==
  IF idx > Len(st.ts) THEN st
  ELSE IF ~Has(st.ts[idx], "UID") \/ AllowListed(st.ts[idx])
  THEN RemoveDatesFrom(idx + 1, st)
  ELSE RemoveDatesFrom(idx + 1, DropDate(DropDate(st, idx, "Start"), idx, "Finish"))

remove_conflicting_dates(ts, reps) == RemoveDatesFrom(1, [ts |-> ts, reps |-> reps])

(***************************************************************************)
(* repairs.py: add_essential_project_metadata                              *)
(***************************************************************************)
\* lines 318-364
project_metadata ==
  <<<<"SaveVersion", <<"1", "4">>>>,
    <<"BuildNumber", <<"1", "6", ".", "0", ".", "1", "4", "3", "2", "6", ".", "2", "0", "4", "5", "4">>>>,
    <<"FYStartDate", <<"1">>>>,
    <<"CriticalSlackLimit", <<"0">>>>,
    <<"DaysPerMonth", <<"2", "0">>>>,
    <<"CurrencyDigits", <<"2">>>>,
    <<"CurrencySymbol", <<"$">>>>,
    <<"CurrencyCode", <<"U", "S", "D">>>>,
    <<"CurrencySymbolPosition", <<"0">>>>,
    <<"DefaultTaskType", <<"0">>>>,
    <<"DefaultFixedCostAccrual", <<"3">>>>,
    <<"DefaultStandardRate", <<"0">>>>,
    <<"DefaultOvertimeRate", <<"0">>>>,
    <<"DurationFormat", <<"7">>>>,
    <<"WorkFormat", <<"2">>>>,
    <<"EditableActualCosts", <<"0">>>>,
    <<"HonorConstraints", <<"0">>>>,
    <<"InsertedProjectsLikeSummary", <<"0">>>>,
    <<"MultipleCriticalPaths", <<"0">>>>,
    <<"NewTasksEffortDriven", <<"0">>>>,
    <<"NewTasksEstimated", <<"1">>>>,
    <<"SplitsInProgressTasks", <<"1">>>>,
    <<"SpreadActualCost", <<"0">>>>,
    <<"SpreadPercentComplete", <<"0">>>>,
    <<"TaskUpdatesResource", <<"1">>>>,
    <<"FiscalYearStart", <<"0">>>>,
    <<"WeekStartDay", <<"0">>>>,
    <<"MoveCompletedEndsBack", <<"0">>>>,
    <<"MoveRemainingStartsBack", <<"0">>>>,
    <<"MoveRemainingStartsForward", <<"0">>>>,
    <<"MoveCompletedEndsForward", <<"0">>>>,
    <<"BaselineForEarnedValue", <<"0">>>>,
    <<"AutoAddNewResourcesAndTasks", <<"1">>>>,
    <<"MicrosoftProjectServerURL", <<"1">>>>,
    <<"Autolink", <<"0">>>>,
    <<"NewTaskStartDate", <<"0">>>>,
    <<"NewTasksAreManual", <<"1">>>>,
    <<"DefaultTaskEVMethod", <<"0">>>>,
    <<"ProjectExternallyEdited", <<"0">>>>,
    <<"ExtendedCreationDate", <<"1", "9", "8", "4", "-", "0", "1", "-", "0", "1", "T", "0", "0", ":", "0", "0", ":", "0", "0">>>>,
    <<"ActualsInSync", <<"0">>>>,
    <<"RemoveFileProperties", <<"0">>>>,
    <<"AdminProject", <<"0">>>>,
    <<"UpdateManuallyScheduledTasksWhenEditingLinks", <<"1">>>>,
    <<"KeepTaskOnNearestWorkingTimeWhenMadeAutoScheduled", <<"0">>>>>>

\* lines 386-390
structural_elements ==
  <<"Views", "Filters", "Groups", "Tables", "Maps", "Reports", "Drawings", "DataLinks", "VBAProjects", "OutlineCodes", "WBSMasks", "ExtendedAttributes">>

\* list(root).index(e) for the first element with the tag in the document:
\* its position among the children of <Project>, 0 if it is not one of them
\* (ValueError)
ChildIndex(doc, tag) ==
  LET root == RootKids(doc)
      Inside(i) == tag \in {e.tag : e \in Range(Flatten(root[i].kids))}
  IN IF \E i \in 1..Len(root) :
          root[i].tag = tag /\ \A j \in 1..(i - 1) : root[j].tag # tag /\ ~Inside(j)
     THEN CHOOSE i \in 1..Len(root) :
          root[i].tag = tag /\ \A j \in 1..(i - 1) : root[j].tag # tag /\ ~Inside(j)
     ELSE 0

\* lines 378-385 and 394-400: root.insert(index, e) with index going up by
\* one puts the new elements, in their order, after the first index
\* children, or at the end when there are fewer children
InsertBlock(kids, index, new) ==
  LET i == IF index > Len(kids) THEN Len(kids) ELSE index
  IN SubSeq(kids, 1, i) \o new \o SubSeq(kids, i + 1, Len(kids))

\* the entries of the table whose element the document lacks
MissingMetadata(present) ==
  LET Test(f) == f[1] \notin present
      missing == SelectSeq(project_metadata, Test)
  IN [k \in 1..Len(missing) |-> Elem(missing[k][1], missing[k][2])]

MissingStructure(present) ==
  LET Test(name) == name \notin present
      missing == SelectSeq(structural_elements, Test)
  IN [k \in 1..Len(missing) |-> Elem(missing[k], <<>>)]

\* [proj, reps, raised]
add_essential_project_metadata(doc, reps) ==
  LET present == DocTags(doc)
      anchor == IF "MinutesPerWeek" \in present THEN "MinutesPerWeek"
                ELSE IF "Calendars" \in present THEN "Calendars"
                ELSE IF "CurrentDate" \in present THEN "CurrentDate" ELSE ""
      insert_index == IF anchor = "" THEN 10
                      ELSE IF anchor = "Calendars" THEN ChildIndex(doc, anchor) - 1
                      ELSE ChildIndex(doc, anchor)
      metadata == MissingMetadata(present)
      doc1 == [doc EXCEPT !.proj = InsertBlock(doc.proj, insert_index, metadata)]
      structure == IF "Calendars" \in present THEN MissingStructure(present) ELSE <<>>
      s == [proj |-> IF "Calendars" \in present
                     THEN InsertBlock(doc1.proj, ChildIndex(doc1, "Calendars") - 1, structure)
                     ELSE doc1.proj,
            added |-> Len(metadata) + Len(structure)]
  IN IF (anchor # "" /\ ChildIndex(doc, anchor) = 0)
        \/ ("Calendars" \in present /\ ChildIndex(doc1, "Calendars") = 0)
     THEN [proj |-> doc.proj, reps |-> reps, raised |-> TRUE]
     ELSE [proj |-> s.proj,
           reps |-> IF s.added > 0
                    THEN log_repair(reps, "Project Metadata",
                           Msg("Added essential project configuration fields", <<ToText(s.added)>>))
                    ELSE reps,
           raised |-> FALSE]

(***************************************************************************)
(* repairs.py: add_essential_ms_project_fields                             *)
(***************************************************************************)
\* lines 271-281
essential_fields ==
  <<<<"PercentComplete", <<"0">>>>,
    <<"PercentWorkComplete", <<"0">>>>,
    <<"Active", <<"1">>>>,
    <<"Manual", <<"0">>>>,
    <<"Estimated", <<"0">>>>,
    <<"IsNull", <<"0">>>>,
    <<"DurationFormat", <<"7">>>>,
    <<"Priority", <<"5", "0", "0">>>>,
    <<"Critical", <<"0">>>>>>

RECURSIVE AppendMissing(_, _)
AppendMissing(task, k) ==
  IF k > Len(essential_fields) THEN task
  ELSE AppendMissing(IF Has(task, essential_fields[k][1]) THEN task
                     ELSE Append(task, Elem(essential_fields[k][1], essential_fields[k][2])),
                     k + 1)

\* lines 290-296
AppendWBS(task) ==
  IF ~Has(task, "WBS") /\ Has(task, "OutlineNumber")
  THEN Append(task, Elem("WBS", TextOf(task, "OutlineNumber")))
  ELSE task

\* the function never calls log_repair
add_essential_ms_project_fields(ts) ==
  [i \in 1..Len(ts) |-> AppendWBS(AppendMissing(ts[i], 1))]

(***************************************************************************)
(* repairs.py: fix_incorrect_milestones, fix_zero_work_tasks               *)
(***************************************************************************)
ZeroDuration == <<"P", "T", "0", "H", "0", "M", "0", "S">>
DefaultDuration == <<"P", "T", "8", "H", "0", "M", "0", "S">>

\* lines 432-433
HasEffort(task) ==
  \/ Has(task, "Duration") /\ TextOf(task, "Duration") # ZeroDuration
  \/ Has(task, "Work") /\ TextOf(task, "Work") # ZeroDuration

\* lines 421-444
RECURSIVE FixMilestonesFrom(_, _)
FixMilestonesFrom(idx, st) ==
  IF idx > Len(st.ts) THEN st
  ELSE LET task == st.ts[idx]
       IN IF IsSummary(task) \/ ~IsMilestone(task) \/ ~HasEffort(task)
          THEN FixMilestonesFrom(idx + 1, st)
          ELSE FixMilestonesFrom(idx + 1,
                 [ts |-> [st.ts EXCEPT ![idx] = RemoveAt(task, find_one(task, "Milestone"))],
                  reps |-> log_repair(st.reps, "Incorrect Milestones",
                             Msg("Removed incorrect <Milestone> flag from work task",
                                 <<get_task_name(task),
                                   IF Has(task, "UID") THEN TextOf(task, "UID") ELSE TxtUnknown,
                                   IF Has(task, "Duration") THEN TextOf(task, "Duration") ELSE TxtNone,
                                   IF Has(task, "Work") THEN TextOf(task, "Work") ELSE TxtNone>>))])

fix_incorrect_milestones(ts, reps) == FixMilestonesFrom(1, [ts |-> ts, reps |-> reps])

\* lines 476-478 without the test of Work
ZeroEffortDurationOnly(task) ==
  Has(task, "Duration") /\ TextOf(task, "Duration") = ZeroDuration

\* lines 476-478
ZeroEffort(task) ==
  /\ Has(task, "Duration") /\ TextOf(task, "Duration") = ZeroDuration
  /\ ~Has(task, "Work") \/ TextOf(task, "Work") = ZeroDuration

\* lines 482-493
WithDefaultEffort(task) ==
  LET d == [task EXCEPT ![find_one(task, "Duration")].text = DefaultDuration]
  IN IF Has(task, "Work") THEN [d EXCEPT ![find_one(task, "Work")].text = DefaultDuration]
     ELSE Append(d, Elem("Work", DefaultDuration))

\* lines 465-496
RECURSIVE FixZeroWorkFrom(_, _)
FixZeroWorkFrom(idx, st) ==
  IF idx > Len(st.ts) THEN st
  ELSE LET task == st.ts[idx]
       IN IF IsSummary(task) \/ IsMilestone(task) \/ ~ZeroEffort(task)
          THEN FixZeroWorkFrom(idx + 1, st)
          ELSE FixZeroWorkFrom(idx + 1,
                 [ts |-> [st.ts EXCEPT ![idx] = WithDefaultEffort(task)],
                  reps |-> log_repair(st.reps, "Zero Work Tasks",
                             Msg("Assigned default 8-hour duration/work to zeroed-out task",
                                 <<get_task_name(task),
                                   IF Has(task, "UID") THEN TextOf(task, "UID") ELSE TxtUnknown>>))])

fix_zero_work_tasks(ts, reps) == FixZeroWorkFrom(1, [ts |-> ts, reps |-> reps])

(***************************************************************************)
(* repairs.py: calculate_finish_dates                                      *)
(***************************************************************************)
DefaultMinutesPerDay == 480
DefaultWorkingDays == 5
DaysPerWeek == 7

\* lines 521-534: the number of WeekDay elements of the base calendar with
\* DayWorking 1, or 5 without a base calendar
working_days(doc) ==
  LET cal_uid == FirstInDoc(doc, "CalendarUID")
      base_cal == IF cal_uid = <<>> THEN <<>> ELSE BaseCalendar(doc, cal_uid[1].text)
      Test(d) == WorkingDay(d)
  IN IF base_cal = <<>> THEN DefaultWorkingDays
     ELSE Len(SelectSeq(find_all_deep(base_cal[1].kids, "WeekDay"), Test))

\* lines 548-551: timedelta(days = minutes / minutes_per_day * (7 / working_days))
\* in whole seconds, a day having 1440 minutes: dsec * 7 * 1440 over
\* minutes_per_day * working_days, the quotient formed in two parts to keep
\* the intermediate product small
FinishOffset(dsec, mpd, wd) ==
  LET den == mpd * wd
      week == DaysPerWeek * 1440
  IN (dsec \div den) * week + (((dsec % den) * week) \div den)

NeedsFinish(task) ==
  /\ ~IsSummary(task) /\ ~IsMilestone(task)
  /\ Has(task, "Start") /\ Has(task, "Duration") /\ ~Has(task, "Finish")

\* lines 536-559; st = [ts, reps, raised]
RECURSIVE CalculateFrom(_, _, _, _)
CalculateFrom(idx, mpd, wd, st) ==
  IF idx > Len(st.ts) \/ st.raised THEN st
  ELSE LET task == st.ts[idx]
           start == TextOf(task, "Start")
           dsec == parse_duration_seconds(TextOf(task, "Duration"))
       IN IF ~NeedsFinish(task) THEN CalculateFrom(idx + 1, mpd, wd, st)
          ELSE IF strptime(start) < 0 \/ mpd = 0 \/ wd = 0
          THEN [st EXCEPT !.raised = TRUE]
          ELSE LET finish == FormatDateTime(strptime(start) + FinishOffset(dsec, mpd, wd))
                   t1 == InsertAt(task, find_one(task, "Start") + 1, Elem("Finish", finish))
               IN CalculateFrom(idx + 1, mpd, wd,
                    [ts |-> [st.ts EXCEPT ![idx] = t1],
                     reps |-> log_repair(st.reps, "Finish Date Calculation",
                                Msg("Calculated Finish date",
                                    <<get_task_name(task), finish, start,
                                      TextOf(task, "Duration")>>)),
                     raised |-> FALSE])

\* [ts, reps, raised]; int() of a MinutesPerDay that is no number raises
calculate_finish_dates(doc, reps) ==
  LET mpd == FirstInDoc(doc, "MinutesPerDay")
  IN IF mpd # <<>> /\ ~IsNumber(mpd[1].text)
     THEN [ts |-> doc.tasks, reps |-> reps, raised |-> TRUE]
     ELSE CalculateFrom(1, IF mpd = <<>> THEN DefaultMinutesPerDay ELSE ToInt(mpd[1].text),
                        working_days(doc), [ts |-> doc.tasks, reps |-> reps, raised |-> FALSE])

(***************************************************************************)
(* The passes as steps of core.py: validate_and_repair_project_xml.  pc is *)
(* the call the run is about to make.  An exception raised by a call is    *)
(* caught by the handler of lines 118-125, which returns (False, {}, {}).  *)
(***************************************************************************)
NoDoc == [proj |-> <<>>, tasks |-> <<>>, resources |-> <<>>, assignments |-> <<>>,
          calendars |-> <<>>]

NoResult == [success |-> FALSE, repairs |-> EmptyLedger, errors |-> EmptyLedger]

Raise ==
  /\ pc' = "returned"
  /\ raised' = TRUE
  /\ result' = [success |-> FALSE, repairs |-> EmptyLedger, errors |-> EmptyLedger]

\* core.py line 63
FixSummaryTaskPredecessors ==
  /\ pc = "fix_summary_task_predecessors"
  /\ LET r == fix_summary_task_predecessors(tasks, repairs) IN
       /\ tasks' = r.ts
       /\ repairs' = r.reps
       /\ IF r.raised THEN Raise
          ELSE /\ pc' = "detect_circular_dependencies"
               /\ UNCHANGED <<result, raised>>
  /\ tasksBefore' = tasks
  /\ UNCHANGED <<proj, resources, assignments, calendars, errors, task_uids,
                 resource_uids, cycle_found, run, repair_mode, well_formed,
                 output_file, written, docIn, out_doc>>

\* the run with the Finish dates derived before the cycles are looked for
FinishDatesBeforeCycles ==
  /\ pc = "detect_circular_dependencies"
  /\ pc' = "calculate_finish_dates"
  /\ UNCHANGED <<docVars, errors, repairs, task_uids, resource_uids, cycle_found, run,
                 repair_mode, well_formed, output_file, written, result, raised, docIn,
                 tasksBefore, out_doc>>

\* core.py line 64
DetectCircularDependencies ==
  /\ pc = "detect_circular_dependencies"
  /\ LET r == detect_circular_dependencies(tasks, repairs) IN
       /\ tasks' = r.ts
       /\ repairs' = r.reps
       /\ cycle_found' = r.found
  /\ pc' = "fix_date_formats"
  /\ tasksBefore' = tasks
  /\ UNCHANGED <<proj, resources, assignments, calendars, errors, task_uids,
                 resource_uids, run, repair_mode, well_formed,
                 output_file, written, result, raised, docIn, out_doc>>

\* validators.py lines 20-33: the ways in which open and ET.parse fail on a
\* file that cannot be read as XML, and the ones check_xml_well_formed
\* catches.  A file that is not UTF-8 text makes the text-mode read at
\* line 22 raise UnicodeDecodeError.
ReadFailures == {"ParseError", "FileNotFoundError", "UnicodeDecodeError"}
CaughtReadFailures == {"ParseError", "FileNotFoundError"}

\* core.py lines 48-49; the call is outside the try block of line 50, so an
\* exception that check_xml_well_formed does not catch leaves
\* validate_and_repair_project_xml without a return value
CheckXmlWellFormed ==
  /\ pc = "check_xml_well_formed"
  /\ IF well_formed
     THEN pc' = "check_unique_uids" /\ UNCHANGED result
     ELSE \E failure \in ReadFailures :
            IF failure \in CaughtReadFailures
            THEN pc' = "returned" /\ result' = NoResult
            ELSE pc' = "escaped" /\ UNCHANGED result
  /\ UNCHANGED <<docVars, errors, repairs, task_uids, resource_uids, cycle_found, run,
                 repair_mode, well_formed, output_file, written, raised, docIn,
                 tasksBefore, out_doc>>

\* core.py line 55
CheckUniqueUids ==
  /\ pc = "check_unique_uids"
  /\ LET r == check_unique_uids(Doc, errors) IN
       /\ task_uids' = r.task_uids
       /\ resource_uids' = r.resource_uids
       /\ errors' = r.errs
  /\ pc' = "check_referential_integrity"
  /\ UNCHANGED <<docVars, repairs, cycle_found, run, repair_mode, well_formed,
                 output_file, written, result, raised, docIn, tasksBefore, out_doc>>

\* core.py line 56
CheckReferentialIntegrity ==
  /\ pc = "check_referential_integrity"
  /\ LET r == check_referential_integrity(Doc, task_uids, resource_uids, errors) IN
       /\ errors' = r.errs
       /\ IF r.raised THEN Raise
          ELSE pc' = "check_data_formats" /\ UNCHANGED <<result, raised>>
  /\ UNCHANGED <<docVars, repairs, task_uids, resource_uids, cycle_found, run,
                 repair_mode, well_formed, output_file, written, docIn, tasksBefore,
                 out_doc>>

\* core.py line 57
CheckDataFormats ==
  /\ pc = "check_data_formats"
  /\ errors' = check_data_formats(Doc, errors)
  /\ pc' = "check_calendar_logic"
  /\ UNCHANGED <<docVars, repairs, task_uids, resource_uids, cycle_found, run,
                 repair_mode, well_formed, output_file, written, result, raised, docIn,
                 tasksBefore, out_doc>>

\* core.py lines 58-59
CheckCalendarLogic ==
  /\ pc = "check_calendar_logic"
  /\ errors' = check_calendar_logic(Doc, errors)
  /\ pc' = IF repair_mode THEN "fix_summary_task_predecessors" ELSE "report"
  /\ UNCHANGED <<docVars, repairs, task_uids, resource_uids, cycle_found, run,
                 repair_mode, well_formed, output_file, written, result, raised, docIn,
                 tasksBefore, out_doc>>

\* core.py line 65
FixDateFormatsOutcome(r) ==
  /\ proj' = r.doc.proj
  /\ tasks' = r.doc.tasks
  /\ resources' = r.doc.resources
  /\ assignments' = r.doc.assignments
  /\ errors' = r.acc.errs
  /\ repairs' = r.acc.reps
  /\ IF r.acc.raised THEN Raise
     ELSE pc' = "withdraw_format_errors" /\ UNCHANGED <<result, raised>>

FixDateFormats ==
  /\ pc = "fix_date_formats"
  /\ FixDateFormatsOutcome(fix_date_formats(Doc, errors, repairs))
  /\ UNCHANGED <<calendars, task_uids, resource_uids, cycle_found, run, repair_mode,
                 well_formed, output_file, written, docIn, tasksBefore, out_doc>>

\* lines 66-67 with every category deleted
WithoutAnyCategory(errs, category) == EmptyLedger

\* core.py lines 66-67: del errors["Data Formats"]
WithoutCategory(errs, category) ==
  [c \in DOMAIN errs \ {category} |-> errs[c]]

WithdrawFormatErrors ==
  /\ pc = "withdraw_format_errors"
  /\ errors' = IF "Data Formats" \in DOMAIN repairs /\ "Data Formats" \in DOMAIN errors
               THEN WithoutCategory(errors, "Data Formats")
               ELSE errors
  /\ pc' = "remove_conflicting_dates"
  /\ UNCHANGED <<docVars, repairs, task_uids, resource_uids, cycle_found, run,
                 repair_mode, well_formed, output_file, written, result, raised, docIn,
                 tasksBefore, out_doc>>

\* core.py line 68
RemoveConflictingDates ==
  /\ pc = "remove_conflicting_dates"
  /\ LET r == remove_conflicting_dates(tasks, repairs) IN
       tasks' = r.ts /\ repairs' = r.reps
  /\ pc' = "add_essential_project_metadata"
  /\ UNCHANGED <<proj, resources, assignments, calendars, errors, task_uids,
                 resource_uids, cycle_found, run, repair_mode, well_formed, output_file,
                 written, result, raised, docIn, tasksBefore, out_doc>>

\* core.py line 69
AddEssentialProjectMetadata ==
  /\ pc = "add_essential_project_metadata"
  /\ LET r == add_essential_project_metadata(Doc, repairs) IN
       /\ proj' = r.proj
       /\ repairs' = r.reps
       /\ IF r.raised THEN Raise
          ELSE pc' = "add_essential_ms_project_fields" /\ UNCHANGED <<result, raised>>
  /\ UNCHANGED <<tasks, resources, assignments, calendars, errors, task_uids,
                 resource_uids, cycle_found, run, repair_mode, well_formed, output_file,
                 written, docIn, tasksBefore, out_doc>>

\* core.py line 70
AddEssentialMsProjectFields ==
  /\ pc = "add_essential_ms_project_fields"
  /\ tasks' = add_essential_ms_project_fields(tasks)
  /\ pc' = "fix_incorrect_milestones"
  /\ UNCHANGED <<proj, resources, assignments, calendars, errors, repairs, task_uids,
                 resource_uids, cycle_found, run, repair_mode, well_formed, output_file,
                 written, result, raised, docIn, tasksBefore, out_doc>>

\* core.py line 71
FixIncorrectMilestones ==
  /\ pc = "fix_incorrect_milestones"
  /\ LET r == fix_incorrect_milestones(tasks, repairs) IN
       tasks' = r.ts /\ repairs' = r.reps
  /\ pc' = "fix_zero_work_tasks"
  /\ UNCHANGED <<proj, resources, assignments, calendars, errors, task_uids,
                 resource_uids, cycle_found, run, repair_mode, well_formed, output_file,
                 written, result, raised, docIn, tasksBefore, out_doc>>

\* core.py line 72
FixZeroWorkTasks ==
  /\ pc = "fix_zero_work_tasks"
  /\ LET r == fix_zero_work_tasks(tasks, repairs) IN
       tasks' = r.ts /\ repairs' = r.reps
  /\ pc' = "calculate_finish_dates"
  /\ UNCHANGED <<proj, resources, assignments, calendars, errors, task_uids,
                 resource_uids, cycle_found, run, repair_mode, well_formed, output_file,
                 written, result, raised, docIn, tasksBefore, out_doc>>

\* core.py line 73
CalculateFinishDates ==
  /\ pc = "calculate_finish_dates"
  /\ LET r == calculate_finish_dates(Doc, repairs) IN
       /\ tasks' = r.ts
       /\ repairs' = r.reps
       /\ IF r.raised THEN Raise
          ELSE pc' = "add_missing_predecessors" /\ UNCHANGED <<result, raised>>
  /\ UNCHANGED <<proj, resources, assignments, calendars, errors, task_uids,
                 resource_uids, cycle_found, run, repair_mode, well_formed, output_file,
                 written, docIn, tasksBefore, out_doc>>

\* core.py line 74: the function changes nothing (repairs.py lines 567-580)
AddMissingPredecessors ==
  /\ pc = "add_missing_predecessors"
  /\ pc' = "write_output"
  /\ UNCHANGED <<docVars, errors, repairs, task_uids, resource_uids, cycle_found, run,
                 repair_mode, well_formed, output_file, written, result, raised, docIn,
                 tasksBefore, out_doc>>

\* core.py lines 75-94: tree.write(output_file).  The calls into
\* reporting.py that follow write the repair log and touch nothing else.
WriteOutput ==
  /\ pc = "write_output"
  /\ IF output_file
     THEN written' = TRUE /\ out_doc' = Doc
     ELSE UNCHANGED <<written, out_doc>>
  /\ pc' = "report"
  /\ UNCHANGED <<docVars, errors, repairs, task_uids, resource_uids, cycle_found, run,
                 repair_mode, well_formed, output_file, result, raised, docIn,
                 tasksBefore>>

\* the mutation of Passed that reports success whatever was recorded
PassedAlways(errs) == TRUE

\* core.py line 96: if errors
Passed(errs) == DOMAIN errs = {}

\* the run that goes back to writing its output instead of returning
WriteAgainInsteadOfReport ==
  /\ pc = "report"
  /\ pc' = "write_output"
  /\ UNCHANGED <<docVars, errors, repairs, task_uids, resource_uids, cycle_found, run,
                 repair_mode, well_formed, output_file, written, result, raised, docIn,
                 tasksBefore, out_doc>>

\* core.py lines 96-117
Report ==
  /\ pc = "report"
  /\ result' = [success |-> Passed(errors), repairs |-> repairs, errors |-> errors]
  /\ pc' = "returned"
  /\ UNCHANGED <<docVars, errors, repairs, task_uids, resource_uids, cycle_found, run,
                 repair_mode, well_formed, output_file, written, raised, docIn,
                 tasksBefore, out_doc>>

\* a second call of validate_and_repair_project_xml, on the file the first
\* call has written (ET.parse of what tree.write produced: the same tree)
Rerun ==
  /\ pc = "returned" /\ run = 1 /\ written
  /\ run' = 2
  /\ proj' = out_doc.proj
  /\ tasks' = out_doc.tasks
  /\ resources' = out_doc.resources
  /\ assignments' = out_doc.assignments
  /\ calendars' = out_doc.calendars
  /\ docIn' = out_doc
  /\ tasksBefore' = out_doc.tasks
  /\ errors' = EmptyLedger /\ repairs' = EmptyLedger
  /\ task_uids' = {} /\ resource_uids' = {}
  /\ cycle_found' = FALSE
  /\ result' = NoResult /\ raised' = FALSE
  /\ written' = FALSE
  /\ pc' = "check_xml_well_formed"
  /\ UNCHANGED <<repair_mode, well_formed, output_file, out_doc>>

(***************************************************************************)
(* Input families of the Dependency Graph Analyzer.  A document has        *)
(* NumTasks tasks with the UIDs 1..NumTasks (the last task may repeat the  *)
(* UID of the first) and a multiset of edges between them.  A link names a *)
(* task, a UID no task has (DanglingUid), or has no PredecessorUID child.  *)
(***************************************************************************)
DanglingUid == <<"9">>

\* targets 1..NumTasks name the UID, NumTasks + 1 is DanglingUid and
\* NumTasks + 2 a link without PredecessorUID
NumTargets == NumTasks + 2

MkLink(t) ==
  IF t = NumTasks + 2 THEN Node("PredecessorLink", <<Elem("Type", <<"1">>)>>)
  ELSE Node("PredecessorLink",
            <<Elem("PredecessorUID", IF t = NumTasks + 1 THEN DanglingUid ELSE ToText(t)),
              Elem("Type", <<"1">>)>>)

\* edge code c > 0: owner ((c - 1) \div NumTargets) + 1,
\* target ((c - 1) % NumTargets) + 1; the codes of a document are sorted
EdgeCodes(n) ==
  {c \in [1..n -> 0..(NumTasks * NumTargets)] : \A k \in 1..(n - 1) : c[k] <= c[k + 1]}

RECURSIVE LinksOf(_, _, _)
LinksOf(e, k, owner) ==
  IF k > Len(e) THEN <<>>
  ELSE IF e[k] > 0 /\ ((e[k] - 1) \div NumTargets) + 1 = owner
       THEN <<MkLink(((e[k] - 1) % NumTargets) + 1)>> \o LinksOf(e, k + 1, owner)
       ELSE LinksOf(e, k + 1, owner)

\* level 0: the task has no OutlineLevel element
MkTask(uid, summary, level, links) ==
  <<Elem("UID", uid)>>
    \o (IF summary THEN <<Elem("Summary", <<"1">>)>> ELSE <<>>)
    \o (IF level > 0 THEN <<Elem("OutlineLevel", ToText(level))>> ELSE <<>>)
    \o links

UidAt(i, dup) == IF dup /\ i = NumTasks THEN ToText(1) ELSE ToText(i)

\* the first task is at level 1, the last may lack its OutlineLevel
LevelChoices(i) ==
  IF i = 1 THEN {1} ELSE IF i = NumTasks THEN 0..2 ELSE 1..2

InitRest ==
  /\ proj = <<Node("Tasks", <<>>)>>
  /\ resources = <<>> /\ assignments = <<>> /\ calendars = <<>>
  /\ errors = EmptyLedger /\ repairs = EmptyLedger
  /\ task_uids = {} /\ resource_uids = {}
  /\ cycle_found = FALSE
  /\ run = 1 /\ repair_mode = TRUE /\ well_formed = TRUE
  /\ output_file = FALSE /\ written = FALSE
  /\ result = NoResult /\ raised = FALSE
  /\ out_doc = NoDoc

InitGraph ==
  /\ \E summary \in [1..NumTasks -> BOOLEAN], e \in EdgeCodes(MaxEdges), dup \in BOOLEAN :
       \E level \in [1..NumTasks -> 0..2] :
         /\ \A i \in 1..NumTasks : level[i] \in LevelChoices(i)
         /\ tasks = [i \in 1..NumTasks |->
                       MkTask(UidAt(i, dup), summary[i], level[i], LinksOf(e, 1, i))]
  /\ InitRest
  /\ pc = "fix_summary_task_predecessors"
  /\ docIn = Doc /\ tasksBefore = tasks

NextGraph == FixSummaryTaskPredecessors \/ DetectCircularDependencies

SpecGraph == InitGraph /\ [][NextGraph]_vars

\* detect_circular_dependencies called on its own (tests/test_repairs.py
\* line 28) on plain tasks with up to MaxCycleEdges edges
InitCycle ==
  /\ \E e \in EdgeCodes(MaxCycleEdges), dup \in BOOLEAN :
       tasks = [i \in 1..NumTasks |->
                  MkTask(UidAt(i, dup), FALSE, 1, LinksOf(e, 1, i))]
  /\ InitRest
  /\ pc = "detect_circular_dependencies"
  /\ docIn = Doc /\ tasksBefore = tasks

NextCycle == DetectCircularDependencies

SpecCycle == InitCycle /\ [][NextCycle]_vars

(***************************************************************************)
(* Input families of the whole run.  A document has MaxPipeTasks tasks,    *)
(* each of one of the profiles below, under one of three <Project>         *)
(* headers.  The UIDs 39 and 3 are on the allow-list of                    *)
(* remove_conflicting_dates.                                               *)
(***************************************************************************)
MaxPipeTasks == 2

CanonicalStart == <<"2", "0", "2", "4", "-", "0", "1", "-", "1", "5", "T", "0", "8", ":", "0", "0", ":", "0", "0">>
EightHours == <<"P", "T", "8", "H", "0", "M", "0", "S">>

PipeUid(i) ==
  IF i = 1 THEN <<"3", "9">> ELSE IF i = 3 THEN <<"3">> ELSE ToText(i)

\* the task after task i, the first after the last
Other(i) == (i % MaxPipeTasks) + 1

LinkTo(uid) == Node("PredecessorLink", <<Elem("PredecessorUID", uid), Elem("Type", <<"1">>)>>)

ProfileIds == 1..10

Profile(p, i) ==
  IF p = 1 THEN <<Elem("Duration", EightHours), Elem("Work", EightHours)>>
  ELSE IF p = 2 THEN <<Elem("Duration", <<"P", "T", "4", "T", "w", "o", "H", "0", "M", "0", "S">>)>>
  ELSE IF p = 3 THEN <<Elem("Work", <<"P", "1", "D">>)>>
  ELSE IF p = 4 THEN <<Elem("Milestone", <<"1">>), Elem("Start", CanonicalStart),
                       Elem("Duration", EightHours)>>
  ELSE IF p = 5 THEN <<Elem("Duration", ZeroDuration), Elem("Work", ZeroDuration)>>
  ELSE IF p = 6 THEN <<Elem("Start", <<"2", "0", "2", "4", "-", "0", "1", "-", "1", "5">>), Elem("Duration", EightHours)>>
  ELSE IF p = 7 THEN <<Elem("Start", <<"2", "0", "2", "4", "-", "0", "1", "-", "1", "5", "T", "0", "8", ":", "0", "0", ":", "0", "0", "Z">>), Elem("Duration", EightHours)>>
  ELSE IF p = 8 THEN <<Elem("Summary", <<"1">>), LinkTo(PipeUid(Other(i)))>>
  ELSE IF p = 9 THEN <<Elem("Duration", EightHours), LinkTo(DanglingUid)>>
  ELSE <<Elem("Duration", EightHours), LinkTo(PipeUid(Other(i)))>>

PipeTask(i, p) ==
  <<Elem("UID", PipeUid(i)), Elem("OutlineLevel", IF i = 1 THEN <<"1">> ELSE <<"2">>)>>
    \o Profile(p, i)

WorkingTime(from, to) ==
  Node("WorkingTime", <<Elem("FromTime", from), Elem("ToTime", to)>>)

\* a week day of two shifts of four hours, or a day off
WeekDay(n, working) ==
  Node("WeekDay",
       <<Elem("DayType", ToText(n)), Elem("DayWorking", IF working THEN <<"1">> ELSE <<"0">>)>>
       \o (IF working
           THEN <<Node("WorkingTimes",
                       <<WorkingTime(<<"0", "8", ":", "0", "0", ":", "0", "0">>, <<"1", "2", ":", "0", "0", ":", "0", "0">>), WorkingTime(<<"1", "3", ":", "0", "0", ":", "0", "0">>, <<"1", "7", ":", "0", "0", ":", "0", "0">>)>>)>>
           ELSE <<>>))

StandardCalendar ==
  <<Elem("UID", <<"1">>),
    Node("WeekDays", [n \in 1..7 |-> WeekDay(n, n \in 2..6)])>>

\* header 1: no calendar; header 2: a calendar that agrees with
\* MinutesPerWeek; header 3: a MinutesPerWeek the calendar does not give
Header(h) ==
  IF h = 1 THEN <<Elem("StartDate", CanonicalStart), Node("Tasks", <<>>)>>
  ELSE <<Elem("StartDate", CanonicalStart), Elem("CalendarUID", <<"1">>),
         Elem("MinutesPerDay", <<"4", "8", "0">>),
         Elem("MinutesPerWeek", IF h = 2 THEN <<"2", "4", "0", "0">> ELSE <<"2", "0", "0", "0">>),
         Node("Calendars", <<>>), Node("Tasks", <<>>)>>

Init ==
  /\ \E h \in 1..3, p \in [1..MaxPipeTasks -> ProfileIds] :
       /\ proj = Header(h)
       /\ tasks = [i \in 1..MaxPipeTasks |-> PipeTask(i, p[i])]
       /\ calendars = IF h = 1 THEN <<>> ELSE <<StandardCalendar>>
  /\ resources = <<>> /\ assignments = <<>>
  /\ errors = EmptyLedger /\ repairs = EmptyLedger
  /\ task_uids = {} /\ resource_uids = {}
  /\ cycle_found = FALSE
  /\ run = 1
  /\ well_formed \in BOOLEAN
  /\ \E mode \in 1..3 :
       /\ repair_mode = (mode > 1)
       /\ output_file = (mode = 3)
  /\ written = FALSE
  /\ result = NoResult /\ raised = FALSE
  /\ out_doc = NoDoc
  /\ pc = "check_xml_well_formed"
  /\ docIn = Doc /\ tasksBefore = tasks

Next ==
  \/ CheckXmlWellFormed
  \/ CheckUniqueUids
  \/ CheckReferentialIntegrity
  \/ CheckDataFormats
  \/ CheckCalendarLogic
  \/ FixSummaryTaskPredecessors
  \/ DetectCircularDependencies
  \/ FixDateFormats
  \/ WithdrawFormatErrors
  \/ RemoveConflictingDates
  \/ AddEssentialProjectMetadata
  \/ AddEssentialMsProjectFields
  \/ FixIncorrectMilestones
  \/ FixZeroWorkTasks
  \/ CalculateFinishDates
  \/ AddMissingPredecessors
  \/ WriteOutput
  \/ Report
  \/ Rerun

Spec == Init /\ [][Next]_vars

\* a call of validate_and_repair_project_xml is in progress
Running == pc \notin {"returned", "escaped"}

\* one statement of a call in progress (Rerun, the caller's choice to call
\* again, is not one)
Statement == pc # "returned" /\ Next

\* the statements of validate_and_repair_project_xml run one after the
\* other: a call in progress takes its next statement.  This is weak
\* fairness of Statement, WF_vars(Statement), written out with
\* ENABLED <<Statement>>_vars spelled as the state predicate Running (every
\* state of a call in progress has a next statement)
SpecLive == Spec /\ ([]<>(~Running) \/ []<><<Statement>>_vars)

(***************************************************************************)
(* Input families of the two identifier checks called on their own.  Each  *)
(* collection has up to MaxPerKind elements.                               *)
(***************************************************************************)
MaxPerKind == 2

\* the sequences over S of length up to n
SeqsUpTo(S, n) == UNION {[1..k -> S] : k \in 0..n}

\* identifier 0: the element has no UID child
WithUid(u) == IF u = 0 THEN <<Elem("Name", <<"x">>)>> ELSE <<Elem("UID", ToText(u))>>

AllContainers == <<Node("Tasks", <<>>), Node("Resources", <<>>), Node("Assignments", <<>>)>>

InitChecks ==
  /\ proj = AllContainers
  /\ calendars = <<>>
  /\ errors = EmptyLedger /\ repairs = EmptyLedger
  /\ task_uids = {} /\ resource_uids = {}
  /\ cycle_found = FALSE
  /\ run = 1 /\ repair_mode = FALSE /\ well_formed = TRUE
  /\ output_file = FALSE /\ written = FALSE
  /\ result = NoResult /\ raised = FALSE
  /\ out_doc = NoDoc
  /\ pc = "check_unique_uids"
  /\ docIn = Doc /\ tasksBefore = tasks

InitUids ==
  /\ \E t \in SeqsUpTo(0..2, MaxPerKind), r \in SeqsUpTo(0..2, MaxPerKind),
        a \in SeqsUpTo(0..2, MaxPerKind) :
       /\ tasks = [i \in 1..Len(t) |-> WithUid(t[i])]
       /\ resources = [i \in 1..Len(r) |-> WithUid(r[i])]
       /\ assignments = [i \in 1..Len(a) |-> WithUid(a[i])]
  /\ InitChecks

NextUids == CheckUniqueUids

SpecUids == InitUids /\ [][NextUids]_vars

\* a reference 0 is absent, 1 names the element with UID 1 and 2 names
\* DanglingUid
RefElem(tag, r) ==
  IF r = 0 THEN <<>> ELSE <<Elem(tag, IF r = 1 THEN <<"1">> ELSE DanglingUid)>>

\* the assignment at place i: own UID or none, task and resource reference
MkAssignment(i, a) ==
  (IF a.uid THEN <<Elem("UID", ToText(i))>> ELSE <<>>)
    \o RefElem("TaskUID", a.task) \o RefElem("ResourceUID", a.resource)

\* the link of the first task: 0 none, 1 to the second task, 2 to
\* DanglingUid, 3 without PredecessorUID
RefLinks(l) ==
  IF l = 0 THEN <<>>
  ELSE IF l = 1 THEN <<LinkTo(<<"2">>)>>
  ELSE IF l = 2 THEN <<LinkTo(DanglingUid)>>
  ELSE <<Node("PredecessorLink", <<Elem("Type", <<"1">>)>>)>>

InitRefs ==
  /\ \E l \in 0..3, n \in 0..MaxPerKind,
        a \in SeqsUpTo([uid : BOOLEAN, task : 0..2, resource : 0..2], MaxPerKind) :
       /\ tasks = <<<<Elem("UID", <<"1">>)>> \o RefLinks(l), <<Elem("UID", <<"2">>)>>>>
       /\ resources = [i \in 1..n |-> <<Elem("UID", ToText(i))>>]
       /\ assignments = [i \in 1..Len(a) |-> MkAssignment(i, a[i])]
  /\ InitChecks

NextRefs == CheckUniqueUids \/ CheckReferentialIntegrity

SpecRefs == InitRefs /\ [][NextRefs]_vars

(***************************************************************************)
(* Properties of the Dependency Graph Analyzer.                            *)
(***************************************************************************)
HasUid(task) == Has(task, "UID")
UidOf(task) == TextOf(task, "UID")

UniqueTaskUids(ts) ==
  \A i, j \in 1..Len(ts) :
    (i # j /\ HasUid(ts[i]) /\ HasUid(ts[j])) => UidOf(ts[i]) # UidOf(ts[j])

\* the links of a task that name a predecessor, and the UIDs they name
EdgesOf(task) == LET Test(l) == HasPredUid(l) IN SelectSeq(PredLinks(task), Test)
TargetsOf(task) == {PredUid(l) : l \in Range(EdgesOf(task))}

\* task i has an edge to task j
DependsOn(ts, i, j) == HasUid(ts[j]) /\ UidOf(ts[j]) \in TargetsOf(ts[i])

\* what is left of S when the tasks without a predecessor in S are taken
\* out again and again
RECURSIVE Peel(_, _)
Peel(ts, S) ==
  LET free == {i \in S : \A j \in S : ~DependsOn(ts, i, j)}
  IN IF free = {} THEN S ELSE Peel(ts, S \ free)

\* a topological ordering that includes every task exists
Acyclic(ts) == Peel(ts, 1..Len(ts)) = {}

AnalyzerDone == pc = "fix_date_formats"

SummaryPassDone == pc = "detect_circular_dependencies"

\* C5: after fix_summary_task_predecessors no summary task owns a
\* PredecessorLink.
NoLinksOnSummaryTasks ==
  SummaryPassDone =>
    \A i \in 1..Len(tasks) : IsSummary(tasks[i]) => PredLinks(tasks[i]) = <<>>

\* the level of a task as the scan reads it: a summary task without
\* OutlineLevel counts as level 0, a scanned task without it as level 999
OwnLevel(task) ==
  IF Has(task, "OutlineLevel") THEN ToInt(TextOf(task, "OutlineLevel")) ELSE 0
ScanLevel(task) ==
  IF Has(task, "OutlineLevel") THEN ToInt(TextOf(task, "OutlineLevel")) ELSE 999

\* the recipient of summary task a: the first later task that is deeper than
\* a and not a summary task, with no task at a's level or above in between
IsRecipient(ts, a, j) ==
  /\ j > a /\ ~IsSummary(ts[j]) /\ ScanLevel(ts[j]) > OwnLevel(ts[a])
  /\ \A k \in (a + 1)..(j - 1) :
       ScanLevel(ts[k]) > OwnLevel(ts[a]) /\ IsSummary(ts[k])

\* C7: every summary task that owns links ends without them; each task that
\* is not a summary task ends with its own targets and those of the summary
\* tasks it is the recipient of, and a link to no other target; the links of
\* a summary task without recipient go to nobody.
RelocationTarget ==
  SummaryPassDone =>
    \A i \in 1..Len(tasks) :
      IF IsSummary(tasksBefore[i])
      THEN PredLinks(tasks[i]) = <<>>
      ELSE TargetsOf(tasks[i]) =
             TargetsOf(tasksBefore[i]) \cup
             UNION {TargetsOf(tasksBefore[a]) :
                      a \in {b \in 1..Len(tasks) :
                               IsSummary(tasksBefore[b]) /\ IsRecipient(tasksBefore, b, i)}}

\* the tasks Kahn's ordering never reaches: P grows by the tasks all of whose
\* named predecessors are tasks of P
RECURSIVE ProcessedTasks(_, _)
ProcessedTasks(ts, P) ==
  LET new == {i \in (1..Len(ts)) \ P :
                \A u \in TargetsOf(ts[i]) : \E j \in P : HasUid(ts[j]) /\ UidOf(ts[j]) = u}
  IN IF new = {} THEN P ELSE ProcessedTasks(ts, P \cup new)

UnprocessedTasks(ts) == (1..Len(ts)) \ ProcessedTasks(ts, {})

\* the link of task i is internal to the unprocessed set
InternalLink(ts, i, l) ==
  /\ HasPredUid(l) /\ i \in UnprocessedTasks(ts)
  /\ \E j \in UnprocessedTasks(ts) : HasUid(ts[j]) /\ UidOf(ts[j]) = PredUid(l)

WithoutInternalLinks(ts) ==
  [i \in 1..Len(ts) |->
     LET Keep(e) == ~(e.tag = "PredecessorLink" /\ InternalLink(ts, i, e))
     IN SelectSeq(ts[i], Keep)]

NumInternalLinks(ts) ==
  Cardinality(UNION {{<<i, k>> : k \in {n \in 1..Len(ts[i]) :
                                          /\ ts[i][n].tag = "PredecessorLink"
                                          /\ InternalLink(ts, i, ts[i][n])}} :
                     i \in 1..Len(ts)})

LedgerCount(ledger, category) ==
  IF category \in DOMAIN ledger THEN Len(ledger[category]) ELSE 0

CycleBreakingExact ==
  /\ tasks = WithoutInternalLinks(tasksBefore)
  /\ LedgerCount(repairs, "Circular Dependencies") = NumInternalLinks(tasksBefore)
  /\ cycle_found = (UnprocessedTasks(tasksBefore) # {})

\* C8, as stated: detect_circular_dependencies removes exactly the links
\* whose owner and target are both unprocessed, records one repair for each
\* and leaves the other links in place.
CycleBreaking == AnalyzerDone => CycleBreakingExact

\* C8, amended: the same on a document whose Task UIDs are pairwise distinct.
CycleBreakingUniqueUids ==
  (AnalyzerDone /\ UniqueTaskUids(tasksBefore)) => CycleBreakingExact

\* links were cut and a link outside the unprocessed set is still there
CycleCutSomeLinksKept ==
  /\ AnalyzerDone /\ UniqueTaskUids(tasksBefore)
  /\ NumInternalLinks(tasksBefore) >= 2
  /\ \E i \in 1..Len(tasks) : TargetsOf(tasks[i]) # {}

(***************************************************************************)
(* Properties of the identifier checks.                                    *)
(***************************************************************************)
UidsOf(elements) == {TextOf(elements[i], "UID") : i \in {j \in 1..Len(elements) : Has(elements[j], "UID")}}

\* some identifier occurs on two elements of the collection
HasDuplicate(elements) ==
  \E i, j \in 1..Len(elements) :
    /\ i < j /\ Has(elements[i], "UID") /\ Has(elements[j], "UID")
    /\ TextOf(elements[i], "UID") = TextOf(elements[j], "UID")

UidsChecked == pc = "check_referential_integrity"

\* C10: check_unique_uids records a 'Duplicate UIDs' error if and only if
\* some identifier occurs more than once among the Tasks, among the
\* Resources or among the Assignments; an identifier shared by elements of
\* different kinds is no duplicate; the two sets returned hold exactly the
\* identifiers of the Tasks and of the Resources.
UniquenessPerKind ==
  UidsChecked =>
    /\ ("Duplicate UIDs" \in DOMAIN errors)
         <=> (HasDuplicate(tasks) \/ HasDuplicate(resources) \/ HasDuplicate(assignments))
    /\ task_uids = UidsOf(tasks)
    /\ resource_uids = UidsOf(resources)

\* an identifier used by a Task, a Resource and an Assignment, unique in
\* each kind, and no error
SharedAcrossKindsAccepted ==
  /\ UidsChecked
  /\ UidsOf(tasks) \cap UidsOf(resources) \cap UidsOf(assignments) # {}
  /\ ~HasDuplicate(tasks) /\ ~HasDuplicate(resources) /\ ~HasDuplicate(assignments)
  /\ Len(tasks) = MaxPerKind
  /\ DOMAIN errors = {}

ReferencesChecked == pc \in {"check_data_formats", "returned"}

BrokenReferences ==
  IF "Broken References" \in DOMAIN errors THEN Range(errors["Broken References"]) ELSE {}

\* an error of the category names the reference
Reported(text) == \E m \in BrokenReferences : m.args # <<>> /\ m.args[Len(m.args)] = text

AllLinks == Range(find_all_deep(RootKids(Doc), "PredecessorLink"))

\* the references of the document that resolve to no element
MissingReferences ==
  {TextOf(assignments[i], "TaskUID") :
     i \in {j \in 1..Len(assignments) :
              Has(assignments[j], "TaskUID") /\ TextOf(assignments[j], "TaskUID") \notin task_uids}}
  \cup
  {TextOf(assignments[i], "ResourceUID") :
     i \in {j \in 1..Len(assignments) :
              Has(assignments[j], "ResourceUID")
                /\ TextOf(assignments[j], "ResourceUID") \notin resource_uids}}
  \cup
  {PredUid(l) : l \in {k \in AllLinks : HasPredUid(k) /\ PredUid(k) \notin task_uids}}

\* C9: after check_referential_integrity every Task or Resource reference
\* of an Assignment and every PredecessorUID either is in the identifier
\* set of its kind or is named by a 'Broken References' error, and every
\* 'Broken References' error names a reference that is missing.
ReferentialClosure ==
  ReferencesChecked =>
    /\ \A ref \in MissingReferences : Reported(ref)
    /\ \A m \in BrokenReferences : m.args[Len(m.args)] \in MissingReferences

(***************************************************************************)
(* Properties of the whole run.                                            *)
(***************************************************************************)
Returned == pc = "returned"

\* the run ended at line 49 or in the handler of lines 118-125
Aborted == ~well_formed \/ raised

\* C3, as stated: whatever path the run takes, the success flag returned
\* is true if and only if the error mapping returned is empty.
SuccessIffNoErrors ==
  Returned => (result.success <=> DOMAIN result.errors = {})

\* C3, amended: a run that ends at line 49 or in the exception handler
\* returns success false with empty mappings; any other run returns the
\* ledgers it has built, and success true if and only if the error ledger
\* is empty.
SuccessIffNoErrorsUnlessAborted ==
  Returned =>
    IF Aborted
    THEN ~result.success /\ DOMAIN result.errors = {} /\ DOMAIN result.repairs = {}
    ELSE /\ result.errors = errors /\ result.repairs = repairs
         /\ result.success <=> DOMAIN errors = {}

\* a run that had recorded errors when an exception ended it
AbortedWithErrorsRecorded ==
  Returned /\ raised /\ DOMAIN errors # {} /\ ~result.success /\ DOMAIN result.errors = {}

CompletedRepairRun == Returned /\ repair_mode /\ ~Aborted

\* C4: after a repair-mode run, whenever a date or duration field of the
\* repaired document is still malformed (check_data_formats would report
\* it), the error mapping returned still has 'Data Formats' entries.
FormatErrorsReflectDefects ==
  CompletedRepairRun =>
    ("Data Formats" \in DOMAIN check_data_formats(Doc, EmptyLedger)
       => "Data Formats" \in DOMAIN result.errors)

\* C6: after a repair-mode run every PredecessorLink left in the document
\* names the UID of a Task of the document.
EdgesResolve ==
  (Returned /\ repair_mode /\ well_formed) =>
    \A l \in AllLinks : HasPredUid(l) => PredUid(l) \in UidsOf(tasks)

\* C2: the second repair run, on the document the first has written,
\* records no repair and leaves the document as it was.
Idempotent ==
  (Returned /\ run = 2) => (DOMAIN repairs = {} /\ out_doc = docIn /\ Doc = docIn)

(***************************************************************************)
(* Input families of check_calendar_logic called on its own.  The          *)
(* <Project> may declare MinutesPerWeek and CalendarUID, the one task may  *)
(* name a task calendar, and the one calendar has DefaultWorkingDays or    *)
(* one fewer working days of the same shifts.                              *)
(***************************************************************************)
TaskCalendarUid == <<"-", "1">>

\* declared MinutesPerWeek: 0 absent, 1 the minutes of five eight-hour days,
\* 2 another number, 3 not a number
DeclaredMinutes(m) ==
  IF m = 0 THEN <<>>
  ELSE <<Elem("MinutesPerWeek",
              IF m = 1 THEN ToText(DefaultWorkingDays * DefaultMinutesPerDay)
              ELSE IF m = 2 THEN <<"2", "0", "0", "0">> ELSE <<"x">>)>>

\* declared CalendarUID: 0 absent, 1 the calendar, 2 no calendar
DeclaredBase(c) ==
  IF c = 0 THEN <<>> ELSE <<Elem("CalendarUID", IF c = 1 THEN <<"1">> ELSE DanglingUid)>>

\* shifts 1: 08-12 and 13-17; 2: 08-16; 3: 08:00:00-16:00:30; 4: a ToTime
\* that is no clock time
Shifts(s) ==
  IF s = 1 THEN <<WorkingTime(<<"0", "8", ":", "0", "0", ":", "0", "0">>, <<"1", "2", ":", "0", "0", ":", "0", "0">>),
                  WorkingTime(<<"1", "3", ":", "0", "0", ":", "0", "0">>, <<"1", "7", ":", "0", "0", ":", "0", "0">>)>>
  ELSE IF s = 2 THEN <<WorkingTime(<<"0", "8", ":", "0", "0", ":", "0", "0">>, <<"1", "6", ":", "0", "0", ":", "0", "0">>)>>
  ELSE IF s = 3 THEN <<WorkingTime(<<"0", "8", ":", "0", "0", ":", "0", "0">>, <<"1", "6", ":", "0", "0", ":", "3", "0">>)>>
  ELSE <<WorkingTime(<<"0", "8", ":", "0", "0", ":", "0", "0">>, <<"n", "o", "o", "n">>)>>

\* the days off carry the shifts too: only DayWorking decides
ShiftDay(n, working, s) ==
  Node("WeekDay",
       <<Elem("DayType", ToText(n)), Elem("DayWorking", IF working THEN <<"1">> ELSE <<"0">>),
         Node("WorkingTimes", Shifts(s))>>)

ShiftCalendar(days, s) ==
  <<Elem("UID", <<"1">>),
    Node("WeekDays", [n \in 1..DaysPerWeek |-> ShiftDay(n, n >= 2 /\ n <= days + 1, s)])>>

InitCalendar ==
  /\ \E m \in 0..3, c \in 0..2, t \in BOOLEAN, k \in BOOLEAN, s \in 1..4,
        days \in {DefaultWorkingDays - 1, DefaultWorkingDays} :
       /\ proj = DeclaredMinutes(m) \o DeclaredBase(c)
                   \o (IF k THEN <<Node("Calendars", <<>>)>> ELSE <<>>)
                   \o <<Node("Tasks", <<>>)>>
       /\ calendars = IF k THEN <<ShiftCalendar(days, s)>> ELSE <<>>
       /\ tasks = <<<<Elem("UID", <<"1">>)>>
                      \o (IF t THEN <<Elem("CalendarUID", TaskCalendarUid)>> ELSE <<>>)>>
  /\ resources = <<>> /\ assignments = <<>>
  /\ errors = EmptyLedger /\ repairs = EmptyLedger
  /\ task_uids = {} /\ resource_uids = {}
  /\ cycle_found = FALSE
  /\ run = 1 /\ repair_mode = FALSE /\ well_formed = TRUE
  /\ output_file = FALSE /\ written = FALSE
  /\ result = NoResult /\ raised = FALSE
  /\ out_doc = NoDoc
  /\ pc = "check_calendar_logic"
  /\ docIn = Doc /\ tasksBefore = tasks

NextCalendar == CheckCalendarLogic

SpecCalendar == InitCalendar /\ [][NextCalendar]_vars

(***************************************************************************)
(* Calendar Consistency Checker                                            *)
(***************************************************************************)
CalendarChecked == pc = "report"

\* the Calendar elements whose UID is the one the <Project> declares
DeclaredCalendars ==
  LET Test(cal) == \E e \in Range(cal) : e.tag = "UID" /\ e.text = TextOf(proj, "CalendarUID")
  IN SelectSeq(calendars, Test)

\* the working intervals of the working days of a calendar
IntervalsOf(cal) == Range(WorkingTimes(Node("Calendar", cal)))

\* the sum of end minus start over the working intervals, in whole minutes
WeeklyMinutes(cal) == SumSeconds(WorkingTimes(Node("Calendar", cal)), 1) \div 60

\* the declared values are present and the calendar is missing or does not
\* give the declared minutes
CalendarMismatch ==
  /\ Has(proj, "MinutesPerWeek") /\ Has(proj, "CalendarUID")
  /\ \/ DeclaredCalendars = <<>>
     \/ ~IsNumber(TextOf(proj, "MinutesPerWeek"))
     \/ \E w \in IntervalsOf(DeclaredCalendars[1]) : ~WorkingTimeOk(w)
     \/ WeeklyMinutes(DeclaredCalendars[1]) # ToInt(TextOf(proj, "MinutesPerWeek"))

\* C11: once check_calendar_logic has run, a 'Calendar Logic' error is
\* recorded if and only if the <Project> declares both MinutesPerWeek and
\* CalendarUID and either no Calendar has that UID or the working intervals
\* of its working days do not sum to the declared minutes
CalendarLogicExact ==
  CalendarChecked => (("Calendar Logic" \in DOMAIN errors) <=> CalendarMismatch)

(***************************************************************************)
(* Input families of fix_date_formats called on its own: MaxPipeTasks      *)
(* tasks, each with a Duration and possibly a Work drawn from SpanTexts,   *)
(* under a <Project> whose StartDate is in the standard form or date-only. *)
(***************************************************************************)
SpanTexts ==
  <<EightHours,
    <<"P", "T", "1", "0", "0", "H", "3", "0", "M", "0", "S">>,
    <<"P", "T", "4", "T", "w", "o", "H", "0", "M", "0", "S">>,
    <<"P", "T", "1", "O", "0", "H", "0", "M", "0", "S">>,
    <<"P", "1", "D">>,
    <<>>>>

\* work 0: the task has no Work element
SpanTask(i, duration, work) ==
  <<Elem("UID", ToText(i)), Elem("Duration", SpanTexts[duration])>>
    \o (IF work = 0 THEN <<>> ELSE <<Elem("Work", SpanTexts[work])>>)

InitFormats ==
  /\ \E d \in [1..MaxPipeTasks -> 1..Len(SpanTexts)],
        w \in [1..MaxPipeTasks -> 0..Len(SpanTexts)], canonical \in BOOLEAN :
       /\ proj = <<Elem("StartDate", IF canonical THEN CanonicalStart
                                     ELSE SubSeq(CanonicalStart, 1, 10)),
                   Node("Tasks", <<>>)>>
       /\ tasks = [i \in 1..MaxPipeTasks |-> SpanTask(i, d[i], w[i])]
  /\ resources = <<>> /\ assignments = <<>> /\ calendars = <<>>
  /\ errors = EmptyLedger /\ repairs = EmptyLedger
  /\ task_uids = {} /\ resource_uids = {}
  /\ cycle_found = FALSE
  /\ run = 1 /\ repair_mode = TRUE /\ well_formed = TRUE
  /\ output_file = FALSE /\ written = FALSE
  /\ result = NoResult /\ raised = FALSE
  /\ out_doc = NoDoc
  /\ pc = "fix_date_formats"
  /\ docIn = Doc /\ tasksBefore = tasks

NextFormats == FixDateFormats

SpecFormats == InitFormats /\ [][NextFormats]_vars

(***************************************************************************)
(* Temporal normalizer: spans                                              *)
(***************************************************************************)
FormatsDone == pc \in {"withdraw_format_errors", "returned"}

SpanTags == {"Duration", "Work"}

\* the places (task, child) that held a span in the standard form
StandardSpans(ts) ==
  {p \in UNION {{<<i, k>> : k \in 1..Len(ts[i])} : i \in 1..Len(ts)} :
     ts[p[1]][p[2]].tag \in SpanTags /\ DURATION_REGEX(ts[p[1]][p[2]].text)}

\* the messages of a ledger category
MessagesOf(ledger, category) ==
  IF category \in DOMAIN ledger THEN Range(ledger[category]) ELSE {}

\* the value a 'Data Formats' message is about: the text the element held
\* when the message was recorded
SpanMessages(ledger) ==
  {m \in MessagesOf(ledger, "Data Formats") : m.field \in SpanTags}

\* C12: once fix_date_formats has run, every Duration and Work that was in
\* the form PT<int>H<int>M<int>S holds the same text as before, and no
\* 'Data Formats' repair or error for a Duration or Work is about a value of
\* that form
FormatRoundTrip ==
  FormatsDone =>
    /\ Len(tasks) = Len(tasksBefore)
    /\ \A p \in StandardSpans(tasksBefore) : tasks[p[1]][p[2]] = tasksBefore[p[1]][p[2]]
    /\ \A m \in SpanMessages(repairs) \cup SpanMessages(errors) : ~DURATION_REGEX(m.args[2])

\* a span in the standard form was left alone while a repair and an error
\* were recorded for other spans
StandardSpanKeptAmongRepairs ==
  /\ pc = "withdraw_format_errors"
  /\ StandardSpans(tasksBefore) # {}
  /\ SpanMessages(repairs) # {}
  /\ SpanMessages(errors) # {}

(***************************************************************************)
(* Validation-only runs and the four checks                                *)
(***************************************************************************)
CheckStages == {"check_unique_uids", "check_referential_integrity",
                "check_data_formats", "check_calendar_logic"}

IsPrefix(s, t) == Len(s) <= Len(t) /\ SubSeq(t, 1, Len(s)) = s

\* every message recorded so far stays, in its place
ErrorsOnlyGrow ==
  \A c \in DOMAIN errors : c \in DOMAIN errors' /\ IsPrefix(errors[c], errors'[c])

\* C13: each of the four validation checks leaves the document and the
\* repair mapping as they are and only appends to the error mapping; in a
\* run with repair disabled no step changes the document, the repair mapping
\* stays empty and the returned repair mapping is empty
ValidationOnlyFrame ==
  [][/\ pc \in CheckStages => (UNCHANGED <<docVars, repairs>> /\ ErrorsOnlyGrow)
     /\ ~repair_mode =>
          /\ UNCHANGED docVars
          /\ repairs' = EmptyLedger
          /\ ~written'
          /\ (pc' = "returned" => result'.repairs = EmptyLedger)]_vars

\* a validation-only run has returned errors of two checks and the document
\* is the one it was given
ValidationOnlyReturnedErrors ==
  /\ ~repair_mode /\ pc = "returned" /\ ~raised
  /\ {"Data Formats", "Calendar Logic"} \subseteq DOMAIN result.errors
  /\ result.repairs = EmptyLedger
  /\ Doc = docIn

(***************************************************************************)
(* Error accumulation                                                      *)
(***************************************************************************)
\* the categories under which the last two checks find errors in a document
LaterCheckCategories(doc) ==
  DOMAIN check_data_formats(doc, EmptyLedger) \cup DOMAIN check_calendar_logic(doc, EmptyLedger)

\* C14: a validation-only run on a document that parses runs all four
\* checks whatever the earlier ones found: it does not end in the middle of
\* the checks, and the errors that the data-format check and the calendar
\* check find in the document are in the returned error mapping
ErrorAccumulation ==
  (pc = "returned" /\ well_formed /\ ~repair_mode) =>
    /\ ~raised
    /\ LaterCheckCategories(docIn) \subseteq DOMAIN result.errors

(***************************************************************************)
(* Cycle presence                                                          *)
(***************************************************************************)
\* the run went through to its report
Completed == pc = "returned" /\ well_formed /\ ~raised

\* C15: a run that goes through to its report on a document whose
\* predecessor graph has a cycle returns an error mapping with an entry for
\* the cycle (the category 'Circular Dependencies' of the analyzer), with
\* repair disabled as well as in repair mode
CyclePresenceReported ==
  (Completed /\ ~Acyclic(docIn.tasks)) => "Circular Dependencies" \in DOMAIN result.errors

(***************************************************************************)
(* Abort behaviour                                                         *)
(***************************************************************************)
\* C16: a run whose input cannot be read as XML, or in which a check or a
\* repair pass raises, ends by returning (False, {}, {}), and neither the
\* repaired document nor the repair log has been written in that run; no
\* run ends in an exception instead of a return value
AbortBehaviour ==
  /\ pc # "escaped"
  /\ (pc = "returned" /\ (~well_formed \/ raised)) => (result = NoResult /\ ~written)

(***************************************************************************)
(* Pass order                                                              *)
(***************************************************************************)
\* core.py lines 48-117 from top to bottom
StageOrder ==
  <<"check_xml_well_formed", "check_unique_uids", "check_referential_integrity",
    "check_data_formats", "check_calendar_logic",
    "fix_summary_task_predecessors", "detect_circular_dependencies",
    "fix_date_formats", "withdraw_format_errors",
    "remove_conflicting_dates", "add_essential_project_metadata",
    "add_essential_ms_project_fields", "fix_incorrect_milestones", "fix_zero_work_tasks",
    "calculate_finish_dates", "add_missing_predecessors",
    "write_output", "report">>

StageIndex(stage) == CHOOSE k \in 1..Len(StageOrder) : StageOrder[k] = stage

RepairStages ==
  {StageOrder[k] : k \in StageIndex("fix_summary_task_predecessors")..StageIndex("add_missing_predecessors")}

\* C17: in a repair-mode run every stage hands over to the stage that
\* follows it in the one order - the four checks, the relocation of summary
\* links, cycle breaking, the date and duration formats, the field passes -
\* unless the run ends there; so a repair pass starts only after the four
\* checks, and calculate_finish_dates only after detect_circular_dependencies
FixedPassOrder ==
  [][(repair_mode /\ pc \in Range(StageOrder)) =>
       \/ pc' \in {"returned", "escaped"}
       \/ /\ pc # "report"
          /\ pc' = StageOrder[StageIndex(pc) + 1]
          /\ pc' \in RepairStages => StageIndex(pc') > StageIndex("check_calendar_logic")
          /\ pc' = "calculate_finish_dates" =>
               StageIndex("detect_circular_dependencies") < StageIndex(pc)]_vars

\* a repair-mode run is about to derive the Finish dates, and the links of a
\* cycle of the input have been removed before
FinishDatesAfterCycleBreaking ==
  /\ repair_mode /\ pc = "calculate_finish_dates"
  /\ ~Acyclic(docIn.tasks) /\ Acyclic(tasks)
  /\ "Circular Dependencies" \in DOMAIN repairs

(***************************************************************************)
(* Input families of fix_zero_work_tasks called on its own: MaxPipeTasks   *)
(* tasks, each a summary task or not, a milestone or not, with a Duration  *)
(* and a Work that are absent, zero or eight hours.                        *)
(***************************************************************************)
\* a duration of no length that DURATION_REGEX accepts and that is not the
\* text PT0H0M0S
ZeroWrittenLong == <<"P", "T", "0", "0", "H", "0", "M", "0", "S">>

\* effort 0: no element
EffortElem(tag, effort) ==
  IF effort = 0 THEN <<>>
  ELSE <<Elem(tag, IF effort = 1 THEN ZeroDuration
                   ELSE IF effort = 2 THEN EightHours ELSE ZeroWrittenLong)>>

EffortTask(i, summary, milestone, duration, work) ==
  <<Elem("UID", ToText(i))>>
    \o (IF summary THEN <<Elem("Summary", <<"1">>)>> ELSE <<>>)
    \o <<Elem("Milestone", IF milestone THEN <<"1">> ELSE <<"0">>)>>
    \o EffortElem("Duration", duration) \o EffortElem("Work", work)

InitZeroWork ==
  /\ \E summary \in [1..MaxPipeTasks -> BOOLEAN], milestone \in [1..MaxPipeTasks -> BOOLEAN],
        duration \in [1..MaxPipeTasks -> 0..2], work \in [1..MaxPipeTasks -> 0..2] :
       tasks = [i \in 1..MaxPipeTasks |->
                  EffortTask(i, summary[i], milestone[i], duration[i], work[i])]
  /\ proj = <<Node("Tasks", <<>>)>>
  /\ resources = <<>> /\ assignments = <<>> /\ calendars = <<>>
  /\ errors = EmptyLedger /\ repairs = EmptyLedger
  /\ task_uids = {} /\ resource_uids = {}
  /\ cycle_found = FALSE
  /\ run = 1 /\ repair_mode = TRUE /\ well_formed = TRUE
  /\ output_file = FALSE /\ written = FALSE
  /\ result = NoResult /\ raised = FALSE
  /\ out_doc = NoDoc
  /\ pc = "fix_zero_work_tasks"
  /\ docIn = Doc /\ tasksBefore = tasks

NextZeroWork == FixZeroWorkTasks

SpecZeroWork == InitZeroWork /\ [][NextZeroWork]_vars

(***************************************************************************)
(* Zero-effort default                                                     *)
(***************************************************************************)
ZeroWorkDone == pc = "calculate_finish_dates"

\* neither summary task nor milestone, Duration PT0H0M0S, Work PT0H0M0S or
\* no Work
NeedsDefaultEffort(task) ==
  /\ ~(\E e \in Range(task) : e.tag = "Summary" /\ e.text = <<"1">>)
  /\ ~(\E e \in Range(task) : e.tag = "Milestone" /\ e.text = <<"1">>)
  /\ \E e \in Range(task) : e.tag = "Duration" /\ e.text = ZeroDuration
  /\ \A e \in Range(task) : e.tag = "Work" => e.text = ZeroDuration

\* the children of a task other than Duration and Work
OtherFields(task) ==
  LET Test(e) == e.tag \notin {"Duration", "Work"} IN SelectSeq(task, Test)

RECURSIVE KahnWithin(_, _, _)
KahnWithin(edges, q, fuel) ==
  IF q.queue = <<>> \/ fuel = 0 THEN q
  ELSE KahnWithin(edges,
                  Relax(Neighbors(edges, Head(q.queue)), 1,
                        [in_degree |-> q.in_degree,
                         queue |-> Tail(q.queue),
                         sorted_count |-> q.sorted_count + 1]),
                  fuel - 1)

\* the loop empties its queue within as many iterations as there are tasks
KahnLoopBounded(ts) ==
  LET keys == TaskKeys(ts, Len(ts))
      edges == GraphEdges(ts, keys, 1)
      in_degree == InDegree(edges, keys)
      Zero(uid) == in_degree[uid] = 0
  IN KahnWithin(edges, [in_degree |-> in_degree,
                        queue |-> SelectSeq(keys, Zero),
                        sorted_count |-> 0], Len(keys)).queue = <<>>

\* C19: on the tasks of every document the work-queue loop of
\* detect_circular_dependencies ends within one iteration per task, and
\* every run on a document that parses, cyclic or not, goes through its
\* stages once and returns a result
RunCompletes ==
  /\ [](KahnLoopBounded(tasks))
  /\ (pc = "check_unique_uids") ~> (pc = "returned")

\* a run on a document with a cycle has gone through all its stages and
\* returned
CyclicDocumentReturned ==
  /\ Completed /\ repair_mode
  /\ ~Acyclic(docIn.tasks)
  /\ cycle_found
  /\ result.repairs # EmptyLedger

(***************************************************************************)
(* The verdict of detect_circular_dependencies.                            *)
(***************************************************************************)
\* C20: once detect_circular_dependencies has run, it has returned True if
\* and only if the predecessor graph it was given contains a cycle, and on
\* a graph without a cycle it has returned False, removed no link and
\* recorded no repair.
CycleVerdict ==
  AnalyzerDone =>
    /\ cycle_found = ~Acyclic(tasksBefore)
    /\ Acyclic(tasksBefore) =>
         (~cycle_found /\ tasks = tasksBefore /\ repairs = EmptyLedger)

(***************************************************************************)
(* The relocation of a summary task's links, link by link.                 *)
(***************************************************************************)
\* the number of links of the task that name the predecessor u
EdgeCount(task, u) ==
  Cardinality({k \in 1..Len(EdgesOf(task)) : PredUid(EdgesOf(task)[k]) = u})

\* the targets of the summary tasks whose recipient is task i
ArrivingTargets(ts, i) ==
  UNION {TargetsOf(ts[a]) :
           a \in {b \in 1..Len(ts) : IsSummary(ts[b]) /\ IsRecipient(ts, b, i)}}

\* C21: once fix_summary_task_predecessors has returned, every task that is
\* not a summary task names its previous targets and the targets of the
\* summary tasks it is the recipient of, and no others; it has as many
\* links to a target it already had as before, and exactly one link to each
\* target that is new to it
RelocationWithoutDuplication ==
  SummaryPassDone =>
    \A i \in 1..Len(tasks) :
      ~IsSummary(tasksBefore[i]) =>
        /\ TargetsOf(tasks[i]) =
             TargetsOf(tasksBefore[i]) \cup ArrivingTargets(tasksBefore, i)
        /\ \A u \in TargetsOf(tasks[i]) :
             EdgeCount(tasks[i], u) =
               IF u \in TargetsOf(tasksBefore[i])
               THEN EdgeCount(tasksBefore[i], u) ELSE 1

\* a summary task owned two links to one predecessor, or a link to a
\* predecessor its recipient already had, and the recipient ends with one
DuplicateDiscarded ==
  /\ SummaryPassDone
  /\ \E a, i \in 1..Len(tasks) : \E u \in TargetsOf(tasksBefore[a]) :
       /\ IsSummary(tasksBefore[a]) /\ IsRecipient(tasksBefore, a, i)
       /\ EdgeCount(tasksBefore[a], u) + EdgeCount(tasksBefore[i], u) >= 2
       /\ EdgeCount(tasks[i], u) = 1

(***************************************************************************)
(* fix_incorrect_milestones called on its own: the tasks of the family of  *)
(* fix_zero_work_tasks, with a Duration and a Work that may also be a zero *)
(* written PT00H0M0S.                                                      *)
(***************************************************************************)
InitMilestones ==
  /\ \E summary \in [1..MaxPipeTasks -> BOOLEAN], milestone \in [1..MaxPipeTasks -> BOOLEAN],
        duration \in [1..MaxPipeTasks -> 0..3], work \in [1..MaxPipeTasks -> 0..3] :
       tasks = [i \in 1..MaxPipeTasks |->
                  EffortTask(i, summary[i], milestone[i], duration[i], work[i])]
  /\ proj = <<Node("Tasks", <<>>)>>
  /\ resources = <<>> /\ assignments = <<>> /\ calendars = <<>>
  /\ errors = EmptyLedger /\ repairs = EmptyLedger
  /\ task_uids = {} /\ resource_uids = {}
  /\ cycle_found = FALSE
  /\ run = 1 /\ repair_mode = TRUE /\ well_formed = TRUE
  /\ output_file = FALSE /\ written = FALSE
  /\ result = NoResult /\ raised = FALSE
  /\ out_doc = NoDoc
  /\ pc = "fix_incorrect_milestones"
  /\ docIn = Doc /\ tasksBefore = tasks

NextMilestones == FixIncorrectMilestones

SpecMilestones == InitMilestones /\ [][NextMilestones]_vars

MilestonesDone == pc = "fix_zero_work_tasks"

\* the field is there and its duration, as parse_duration reads it, is not 0
NonZeroField(task, tag) ==
  Has(task, tag) /\ parse_duration_seconds(TextOf(task, tag)) # 0

\* C22: once fix_incorrect_milestones has run, no task that was flagged
\* milestone with a Duration or a Work other than zero is still flagged, and
\* every task that was flagged milestone with a Duration of zero and a Work
\* of zero or no Work is still flagged
MilestoneCorrection ==
  MilestonesDone =>
    \A i \in 1..Len(tasksBefore) :
      IsMilestone(tasksBefore[i]) =>
        /\ (NonZeroField(tasksBefore[i], "Duration") \/ NonZeroField(tasksBefore[i], "Work"))
             => ~IsMilestone(tasks[i])
        /\ (/\ Has(tasksBefore[i], "Duration")
            /\ ~NonZeroField(tasksBefore[i], "Duration")
            /\ ~NonZeroField(tasksBefore[i], "Work"))
             => IsMilestone(tasks[i])

(***************************************************************************)
(* Input families of calculate_finish_dates called on its own.  The        *)
(* <Project> may declare MinutesPerDay and CalendarUID; the calendar has   *)
(* DefaultWorkingDays or one fewer working days; the one task is a summary *)
(* task or not, a milestone or not, with or without Start, Duration and    *)
(* Finish.                                                                 *)
(***************************************************************************)
\* declared MinutesPerDay: 0 absent, 1 the default, 2 ten hours
DeclaredPerDay(m) ==
  IF m = 0 THEN <<>>
  ELSE <<Elem("MinutesPerDay",
              IF m = 1 THEN ToText(DefaultMinutesPerDay) ELSE <<"6", "0", "0">>)>>

\* 1: eight hours, 2: forty hours, 3: ninety minutes
FinishDurations(d) ==
  IF d = 1 THEN EightHours
  ELSE IF d = 2 THEN <<"P", "T", "4", "0", "H", "0", "M", "0", "S">>
  ELSE <<"P", "T", "1", "H", "3", "0", "M", "0", "S">>

FinishTask(summary, milestone, start, duration, finish) ==
  <<Elem("UID", <<"1">>)>>
    \o (IF summary THEN <<Elem("Summary", <<"1">>)>> ELSE <<>>)
    \o (IF milestone THEN <<Elem("Milestone", <<"1">>)>> ELSE <<>>)
    \o (IF start THEN <<Elem("Start", CanonicalStart)>> ELSE <<>>)
    \o (IF finish THEN <<Elem("Finish", CanonicalStart)>> ELSE <<>>)
    \o (IF duration = 0 THEN <<>> ELSE <<Elem("Duration", FinishDurations(duration))>>)

InitFinish ==
  /\ \E m \in 0..2, c \in BOOLEAN, days \in {DefaultWorkingDays - 1, DefaultWorkingDays},
        summary \in BOOLEAN, milestone \in BOOLEAN, start \in BOOLEAN,
        duration \in 0..3, finish \in BOOLEAN :
       /\ proj = DeclaredPerDay(m) \o DeclaredBase(IF c THEN 1 ELSE 0)
                   \o <<Node("Calendars", <<>>), Node("Tasks", <<>>)>>
       /\ calendars = <<ShiftCalendar(days, 2)>>
       /\ tasks = <<FinishTask(summary, milestone, start, duration, finish)>>
  /\ resources = <<>> /\ assignments = <<>>
  /\ errors = EmptyLedger /\ repairs = EmptyLedger
  /\ task_uids = {} /\ resource_uids = {}
  /\ cycle_found = FALSE
  /\ run = 1 /\ repair_mode = TRUE /\ well_formed = TRUE
  /\ output_file = FALSE /\ written = FALSE
  /\ result = NoResult /\ raised = FALSE
  /\ out_doc = NoDoc
  /\ pc = "calculate_finish_dates"
  /\ docIn = Doc /\ tasksBefore = tasks

NextFinish == CalculateFinishDates

SpecFinish == InitFinish /\ [][NextFinish]_vars

(***************************************************************************)
(* Finish derivation                                                       *)
(***************************************************************************)
FinishDone == pc = "add_missing_predecessors"

\* the declared per-day working minutes and the number of working weekdays
\* of the base calendar, with their defaults
PerDayMinutes ==
  IF Has(proj, "MinutesPerDay") THEN ToInt(TextOf(proj, "MinutesPerDay"))
  ELSE DefaultMinutesPerDay

BaseWorkingDays ==
  IF Has(proj, "CalendarUID") /\ DeclaredCalendars # <<>>
  THEN Cardinality({d \in Range(find_all_deep(DeclaredCalendars[1], "WeekDay")) : WorkingDay(d)})
  ELSE DefaultWorkingDays

\* ceil(d) for d the duration over the per-day minutes times 7 over the
\* working weekdays; the duration is in seconds
CeilDays(dsec) ==
  LET den == 60 * PerDayMinutes * BaseWorkingDays
  IN (dsec * DaysPerWeek + den - 1) \div den

\* C23: once calculate_finish_dates has run, every task that was neither
\* summary task nor milestone and had a Start and a Duration but no Finish
\* has, immediately after its Start, a Finish that is the Start plus
\* ceil(d) whole days, d being the duration over the declared per-day
\* minutes times 7 over the working weekdays of the base calendar
FinishDerivation ==
  FinishDone =>
    \A i \in 1..Len(tasksBefore) :
      NeedsFinish(tasksBefore[i]) =>
        tasks[i] =
          InsertAt(tasksBefore[i], find_one(tasksBefore[i], "Start") + 1,
                   Elem("Finish",
                        FormatDateTime(
                          strptime(TextOf(tasksBefore[i], "Start"))
                            + CeilDays(parse_duration_seconds(TextOf(tasksBefore[i], "Duration")))
                                * 86400)))

(***************************************************************************)
(* Input families of remove_conflicting_dates called on its own:           *)
(* MaxPipeTasks tasks, each without UID or with one of 3, 37, 39 and 2, a  *)
(* milestone or not, with or without Start and Finish.                     *)
(***************************************************************************)
DateUids == <<<<"3">>, <<"3", "7">>, <<"3", "9">>, <<"2">>>>

\* uid 0: the task has no UID
DateTask(uid, milestone, start, finish) ==
  (IF uid = 0 THEN <<>> ELSE <<Elem("UID", DateUids[uid])>>)
    \o <<Elem("Milestone", IF milestone THEN <<"1">> ELSE <<"0">>)>>
    \o (IF start THEN <<Elem("Start", CanonicalStart)>> ELSE <<>>)
    \o (IF finish THEN <<Elem("Finish", CanonicalStart)>> ELSE <<>>)
    \o <<Elem("Duration", EightHours)>>

InitDates ==
  /\ \E uid \in [1..MaxPipeTasks -> 0..Len(DateUids)], milestone \in [1..MaxPipeTasks -> BOOLEAN],
        start \in [1..MaxPipeTasks -> BOOLEAN], finish \in [1..MaxPipeTasks -> BOOLEAN] :
       tasks = [i \in 1..MaxPipeTasks |->
                  DateTask(uid[i], milestone[i], start[i], finish[i])]
  /\ proj = <<Node("Tasks", <<>>)>>
  /\ resources = <<>> /\ assignments = <<>> /\ calendars = <<>>
  /\ errors = EmptyLedger /\ repairs = EmptyLedger
  /\ task_uids = {} /\ resource_uids = {}
  /\ cycle_found = FALSE
  /\ run = 1 /\ repair_mode = TRUE /\ well_formed = TRUE
  /\ output_file = FALSE /\ written = FALSE
  /\ result = NoResult /\ raised = FALSE
  /\ out_doc = NoDoc
  /\ pc = "remove_conflicting_dates"
  /\ docIn = Doc /\ tasksBefore = tasks

NextDates == RemoveConflictingDates

SpecDates == InitDates /\ [][NextDates]_vars

(***************************************************************************)
(* Date discard                                                            *)
(***************************************************************************)
DatesDone == pc = "add_essential_project_metadata"

\* identifier 3 or 37, or a milestone with identifier 39, 40, 41 or 42
OnAllowList(task) ==
  \E e \in Range(task) :
    /\ e.tag = "UID"
    /\ \/ e.text \in {<<"3">>, <<"3", "7">>}
       \/ /\ e.text \in {<<"3", "9">>, <<"4", "0">>, <<"4", "1">>, <<"4", "2">>}
          /\ \E f \in Range(task) : f.tag = "Milestone" /\ f.text = <<"1">>

WithoutDates(task) ==
  LET Test(e) == e.tag \notin {"Start", "Finish"} IN SelectSeq(task, Test)

NumDates(task) == Len(task) - Len(WithoutDates(task))

RECURSIVE SumOver(_, _)
SumOver(f, k) == IF k = 0 THEN 0 ELSE f[k] + SumOver(f, k - 1)

\* the tasks whose dates go
DatesGo(task) == HasUid(task) /\ ~OnAllowList(task)

DateDiscardOf(Goes(_)) ==
  DatesDone =>
    /\ \A i \in 1..Len(tasksBefore) :
         tasks[i] = IF Goes(tasksBefore[i]) THEN WithoutDates(tasksBefore[i])
                    ELSE tasksBefore[i]
    /\ LedgerCount(repairs, "Date Constraints") =
         SumOver([i \in 1..Len(tasksBefore) |->
                    IF Goes(tasksBefore[i]) THEN NumDates(tasksBefore[i]) ELSE 0],
                 Len(tasksBefore))

NotOnAllowList(task) == ~OnAllowList(task)

\* C24, as stated: once remove_conflicting_dates has run, every task that is
\* not on the allow-list is without its Start and its Finish, one 'Date
\* Constraints' repair is recorded for each removed field, and every task on
\* the allow-list is as before.
DateDiscard == DateDiscardOf(NotOnAllowList)

\* C24, amended: the same for the tasks that have a UID; a task without UID
\* is as before.
DateDiscardOfIdentifiedTasks == DateDiscardOf(DatesGo)

\* a task lost its Start and its Finish while a milestone of UID 39 kept its
\* Start
DatesGoneExceptionKept ==
  /\ DatesDone
  /\ \E i, j \in 1..Len(tasksBefore) :
       /\ DatesGo(tasksBefore[i]) /\ NumDates(tasksBefore[i]) = 2 /\ NumDates(tasks[i]) = 0
       /\ OnAllowList(tasksBefore[j]) /\ TextOf(tasksBefore[j], "UID") = <<"3", "9">>
       /\ Has(tasks[j], "Start")

(***************************************************************************)
(* The Repair Ledger as a record of the changes.                           *)
(***************************************************************************)
\* the category under which the pass about to run records its repairs
PassCategory(stage) ==
  IF stage = "fix_summary_task_predecessors" THEN "Summary Task Dependencies"
  ELSE IF stage = "detect_circular_dependencies" THEN "Circular Dependencies"
  ELSE IF stage = "fix_date_formats" THEN "Data Formats"
  ELSE IF stage = "remove_conflicting_dates" THEN "Date Constraints"
  ELSE IF stage = "add_essential_project_metadata" THEN "Project Metadata"
  ELSE IF stage = "add_essential_ms_project_fields" THEN "Essential Fields"
  ELSE IF stage = "fix_incorrect_milestones" THEN "Incorrect Milestones"
  ELSE IF stage = "fix_zero_work_tasks" THEN "Zero Work Tasks"
  ELSE IF stage = "calculate_finish_dates" THEN "Finish Date Calculation"
  ELSE "none"

\* the step changes the document
DocumentChanged == Doc' # Doc

\* the step adds an entry to the ledger
LedgerGrew == \E c \in DOMAIN repairs' : LedgerCount(repairs', c) > LedgerCount(repairs, c)

\* C25: a step of a repair pass that changes the document adds an entry to
\* the Repair Ledger, under the category of the pass, and a first run that
\* returns an empty repair mapping returns with the document it was given
EveryChangeRecorded ==
  [][/\ (pc \in RepairStages /\ DocumentChanged) =>
          (LedgerGrew /\ LedgerCount(repairs', PassCategory(pc)) > LedgerCount(repairs, PassCategory(pc)))
     /\ (pc = "report" /\ run = 1 /\ result'.repairs = EmptyLedger) => Doc = docIn]_vars

(***************************************************************************)
(* Input families of fix_date_formats on instants: a <Project> with a      *)
(* StartDate and one task with or without Start and Finish, the texts      *)
(* drawn from InstantTexts.                                                *)
(***************************************************************************)
\* the standard form; the date alone; the standard form followed by Z and
\* by an offset; a blank for T and no seconds; a text that is no date-time
InstantTexts ==
  <<CanonicalStart,
    SubSeq(CanonicalStart, 1, 10),
    CanonicalStart \o <<"Z">>,
    CanonicalStart \o <<"+", "0", "2", ":", "0", "0">>,
    SubSeq(CanonicalStart, 1, 10) \o <<" ">> \o SubSeq(CanonicalStart, 12, 16),
    <<"1", "5", "/", "0", "1", "/", "2", "0", "2", "4">>>>

\* instant 0: no element
InstantElem(tag, instant) ==
  IF instant = 0 THEN <<>> ELSE <<Elem(tag, InstantTexts[instant])>>

InitInstants ==
  /\ \E p \in 1..Len(InstantTexts), s \in 0..Len(InstantTexts), f \in 0..Len(InstantTexts) :
       /\ proj = InstantElem("StartDate", p) \o <<Node("Tasks", <<>>)>>
       /\ tasks = <<<<Elem("UID", <<"1">>)>> \o InstantElem("Start", s)
                      \o InstantElem("Finish", f) \o <<Elem("Duration", EightHours)>>>>
  /\ resources = <<>> /\ assignments = <<>> /\ calendars = <<>>
  /\ errors = EmptyLedger /\ repairs = EmptyLedger
  /\ task_uids = {} /\ resource_uids = {}
  /\ cycle_found = FALSE
  /\ run = 1 /\ repair_mode = TRUE /\ well_formed = TRUE
  /\ output_file = FALSE /\ written = FALSE
  /\ result = NoResult /\ raised = FALSE
  /\ out_doc = NoDoc
  /\ pc = "fix_date_formats"
  /\ docIn = Doc /\ tasksBefore = tasks

NextInstants == FixDateFormats

SpecInstants == InitInstants /\ [][NextInstants]_vars

(***************************************************************************)
(* Temporal normalizer: instants                                           *)
(***************************************************************************)
InstantTags == {date_tags[k] : k \in 1..Len(date_tags)}

\* the children of an element list that are date fields with a text
InstantPlaces(kids) == {k \in 1..Len(kids) : kids[k].tag \in InstantTags /\ kids[k].text # <<>>}

\* the field was e and is now a: it was in the standard form and is as it
\* was, or it is rewritten into the standard form with a repair recorded,
\* or it is as it was with an error recorded
InstantSettled(e, a) ==
  IF DATE_REGEX(e.text) THEN a = e
  ELSE \/ /\ a.tag = e.tag /\ DATE_REGEX(a.text)
          /\ MsgF("Fixed date format", e.tag, <<TxtProject, e.text, a.text>>)
               \in MessagesOf(repairs, "Data Formats")
       \/ /\ a = e
          /\ MsgF("Could not fix invalid date format", e.tag, <<TxtProject, e.text>>)
               \in MessagesOf(errors, "Data Formats")

\* C26: once fix_date_formats has run, every date field whose text was not
\* YYYY-MM-DDTHH:MM:SS, a trailing zone offset included, is rewritten into
\* that form with a 'Data Formats' repair recorded, or is as it was with a
\* 'Data Formats' error recorded; the fields in that form are as they were
InstantRepair ==
  (FormatsDone /\ ~raised) =>
    /\ \A k \in InstantPlaces(docIn.proj) : InstantSettled(docIn.proj[k], proj[k])
    /\ \A i \in 1..Len(docIn.tasks) :
         \A k \in InstantPlaces(docIn.tasks[i]) : InstantSettled(docIn.tasks[i][k], tasks[i][k])

(***************************************************************************)
(* core.py lines 71-72: fix_incorrect_milestones followed by               *)
(* fix_zero_work_tasks, on the tasks of InitMilestones.  The two calls     *)
(* that follow them in a run, calculate_finish_dates and                   *)
(* add_missing_predecessors, write no Milestone, Duration or Work.         *)
(***************************************************************************)
NextEffort == FixIncorrectMilestones \/ FixZeroWorkTasks

SpecEffort == InitMilestones /\ [][NextEffort]_vars

EffortDone == pc = "calculate_finish_dates"

\* the Duration and Work elements of a task
EffortFields(task) ==
  LET Test(e) == e.tag \in {"Duration", "Work"} IN SelectSeq(task, Test)

\* C27: once fix_incorrect_milestones and fix_zero_work_tasks have run in
\* this order, no task other than a summary task is flagged milestone with
\* a Duration or Work other than zero, none is left without the flag with
\* Duration PT0H0M0S and a Work of zero or no Work, and a task that was a
\* milestone of no Duration and no Work has its Duration and Work as before
MilestoneEffortConsistent ==
  EffortDone =>
    \A i \in 1..Len(tasks) :
      ~IsSummary(tasks[i]) =>
        /\ IsMilestone(tasks[i]) =>
             (~NonZeroField(tasks[i], "Duration") /\ ~NonZeroField(tasks[i], "Work"))
        /\ (~IsMilestone(tasks[i]) /\ Has(tasks[i], "Duration")
              /\ TextOf(tasks[i], "Duration") = ZeroDuration)
             => NonZeroField(tasks[i], "Work")
        /\ (/\ IsMilestone(tasksBefore[i])
            /\ ~NonZeroField(tasksBefore[i], "Duration")
            /\ ~NonZeroField(tasksBefore[i], "Work"))
             => EffortFields(tasks[i]) = EffortFields(tasksBefore[i])

(***************************************************************************)
(* Input families of a repair-mode run on documents with the defects the   *)
(* repair passes do not touch: the second task may repeat the UID of the   *)
(* first, the one assignment may name a task no document has, and the      *)
(* calendar may disagree with MinutesPerWeek (Header).  The tasks carry a  *)
(* Duration in the standard form, a Duration with a typo or a Work that    *)
(* cannot be repaired.                                                     *)
(***************************************************************************)
LastingProfiles == 1..3

LastingTask(i, uidOf, p) ==
  <<Elem("UID", PipeUid(uidOf)), Elem("OutlineLevel", IF i = 1 THEN <<"1">> ELSE <<"2">>)>>
    \o Profile(p, i)

InitLasting ==
  /\ \E h \in 1..3, p \in [1..MaxPipeTasks -> LastingProfiles], dup \in BOOLEAN,
        broken \in BOOLEAN :
       /\ proj = Header(h) \o <<Node("Resources", <<>>), Node("Assignments", <<>>)>>
       /\ tasks = [i \in 1..MaxPipeTasks |->
                     LastingTask(i, IF dup THEN 1 ELSE i, p[i])]
       /\ calendars = IF h = 1 THEN <<>> ELSE <<StandardCalendar>>
       /\ resources = <<<<Elem("UID", <<"1">>)>>>>
       /\ assignments =
            IF broken
            THEN <<MkAssignment(1, [uid |-> TRUE, task |-> 2, resource |-> 1])>>
            ELSE <<>>
  /\ errors = EmptyLedger /\ repairs = EmptyLedger
  /\ task_uids = {} /\ resource_uids = {}
  /\ cycle_found = FALSE
  /\ run = 1 /\ well_formed = TRUE /\ repair_mode = TRUE
  /\ output_file \in BOOLEAN
  /\ written = FALSE
  /\ result = NoResult /\ raised = FALSE
  /\ out_doc = NoDoc
  /\ pc = "check_xml_well_formed"
  /\ docIn = Doc /\ tasksBefore = tasks

SpecLasting == InitLasting /\ [][Next]_vars

(***************************************************************************)
(* The errors of the checks through the repair passes.                     *)
(***************************************************************************)
LastingCategories == {"Duplicate UIDs", "Broken References", "Calendar Logic"}

\* the entries of the lasting categories are in the ledger as they are in
\* errors
LastingErrorsIn(ledger) ==
  \A c \in LastingCategories \cap DOMAIN errors :
    c \in DOMAIN ledger /\ ledger[c] = errors[c]

\* C28: in a repair-mode run no step from the first repair pass to the
\* writing of the output changes the entries recorded under 'Duplicate
\* UIDs', 'Broken References' or 'Calendar Logic', and the report returns
\* them as they are, in their order, with success false when there is one
NonFormatErrorsKept ==
  [][/\ (pc \in RepairStages \cup {"write_output"}) => LastingErrorsIn(errors')
     /\ (pc = "report" /\ repair_mode) =>
          /\ LastingErrorsIn(result'.errors)
          /\ (LastingCategories \cap DOMAIN errors # {}) => ~result'.success]_vars

\* a repair-mode run has returned errors of the three categories while the
\* 'Data Formats' errors of the checks were withdrawn
LastingErrorReturned ==
  /\ Completed /\ repair_mode /\ run = 1
  /\ LastingCategories \subseteq DOMAIN result.errors /\ ~result.success
  /\ "Data Formats" \in DOMAIN check_data_formats(docIn, EmptyLedger)
  /\ "Data Formats" \notin DOMAIN result.errors

====
